---- MODULE Spec2Model ----
(***************************************************************************)
(* Routing-tables engine of libbgpstream/bgpcorsaro (routingtables.c, kept *)
(* in src/lib/bgpstream_filter_parser.c from line 420 on).                 *)
(*                                                                         *)
(* The engine folds BGP records (updates, RIB dumps, corrupted and empty   *)
(* records) into a view of peers and (prefix, peer) cells.  The view       *)
(* container itself (the bgpwatcher_view functions) is not part of the sources *)
(* at hand: it is modelled as the flag/payload container the specification *)
(* describes (section 4.C).                                                *)
(***************************************************************************)
EXTENDS Integers, Sequences, FiniteSets, TLC

(* ------------------------------------------------------------------ *)
(* Program constants                                                   *)
(* ------------------------------------------------------------------ *)

ROUTINGTABLES_RIB_BACKLOG_TIME == 60

ROUTINGTABLES_MAX_INACTIVE_TIME == 3600

\* BGPWATCHER_VIEW_ASN_NOEXPORT_START (0xffffff00) does not fit TLC's 32-bit
\* signed integers; the band is placed at 0x7fffff00, above every path ASN.
ROUTINGTABLES_RESERVED_ASN_START == 2147483392

ROUTINGTABLES_LOCAL_ORIGIN_ASN == ROUTINGTABLES_RESERVED_ASN_START + 0

ROUTINGTABLES_CONFSET_ORIGIN_ASN == ROUTINGTABLES_RESERVED_ASN_START + 1

ROUTINGTABLES_DOWN_ORIGIN_ASN == ROUTINGTABLES_RESERVED_ASN_START + 2

(* ------------------------------------------------------------------ *)
(* Bounds and input universe                                           *)
(* ------------------------------------------------------------------ *)

\* cap of the record counters of a collector (valid + corrupted + empty),
\* enforced by the guards of the record actions
MaxRecords == 3

\* peer ids stand for peer signatures (collector, peer ip, peer asn)
PeerIds == {1, 2, 3}

PeerAsn(id) == id * 100

Collectors == {"rrc00", "route-views2"}

PeerCollector(id) == IF id = 3 THEN "route-views2" ELSE "rrc00"

Pfxs == {"10.0.0.0/24", "2001:db8::/32"}

CellKeys == Pfxs \X PeerIds

FsmStates == {"UNKNOWN", "IDLE", "ESTABLISHED"}

(* ------------------------------------------------------------------ *)
(* uint32_t arithmetic                                                 *)
(* ------------------------------------------------------------------ *)

\* x > a - b and x < a - b where a - b is computed in uint32_t: when a < b the
\* difference wraps to 2^32 - (b - a), larger than every timestamp modelled.
U32GtDiff(x, a, b) == IF a >= b THEN x > a - b ELSE FALSE

U32LtDiff(x, a, b) == IF a >= b THEN x < a - b ELSE TRUE

(* ------------------------------------------------------------------ *)
(* AS paths                                                            *)
(* ------------------------------------------------------------------ *)

AsnSeg(n) == [type |-> "ASN", asn |-> n]

SetSeg == [type |-> "SET", asn |-> 0]

get_origin_asn(aspath) ==
  LET asn == IF Len(aspath) = 0 THEN 0
             ELSE IF aspath[Len(aspath)].type = "ASN"
                  THEN aspath[Len(aspath)].asn
                  ELSE ROUTINGTABLES_CONFSET_ORIGIN_ASN
  IN IF asn = 0 THEN ROUTINGTABLES_LOCAL_ORIGIN_ASN ELSE asn

(* ------------------------------------------------------------------ *)
(* Payload constructors                                                *)
(* ------------------------------------------------------------------ *)

perpfx_perpeer_info_create ==
  [bgp_time_last_ts |-> 0, bgp_time_uc_delta_ts |-> 0,
   uc_origin_asn |-> ROUTINGTABLES_DOWN_ORIGIN_ASN,
   announcements |-> 0, withdrawals |-> 0]

perpeer_info_create ==
  [bgp_fsm_state |-> "UNKNOWN",
   bgp_time_ref_rib_start |-> 0, bgp_time_ref_rib_end |-> 0,
   bgp_time_uc_rib_start |-> 0, bgp_time_uc_rib_end |-> 0,
   last_ts |-> 0,
   pfx_announcements_cnt |-> 0, pfx_withdrawals_cnt |-> 0,
   rib_positive_mismatches_cnt |-> 0, rib_negative_mismatches_cnt |-> 0]

NewCollector ==
  [collector_peerids |-> {},
   bgp_time_last |-> 0,
   bgp_time_ref_rib_dump_time |-> 0, bgp_time_ref_rib_start_time |-> 0,
   bgp_time_uc_rib_dump_time |-> 0, bgp_time_uc_rib_start_time |-> 0,
   state |-> "UNKNOWN", active_peers_cnt |-> 0,
   valid_record_cnt |-> 0, corrupted_record_cnt |-> 0, empty_record_cnt |-> 0]

\* absent entries of the peer table, the cell grid and the collector map
NoPeer == [state |-> "INVALID", user |-> perpeer_info_create]

NoCell == [state |-> "INVALID", orig_asn |-> 0, user |-> perpfx_perpeer_info_create]

NoCollector == [NewCollector EXCEPT !.state = "ABSENT"]

get_collector_data(s, collector) ==
  IF s.colls[collector] # NoCollector THEN s
  ELSE [s EXCEPT !.colls[collector] = NewCollector]

(* ------------------------------------------------------------------ *)
(* The view: peers and (prefix, peer) cells with an active flag        *)
(* ------------------------------------------------------------------ *)

bgpwatcher_view_iter_add_peer(s, id) ==
  IF s.peers[id] # NoPeer THEN s
  ELSE [s EXCEPT !.peers[id] = [state |-> "INACTIVE", user |-> perpeer_info_create]]

bgpwatcher_view_iter_add_pfx_peer(s, k, asn) ==
  IF s.cells[k] # NoCell THEN s
  ELSE [s EXCEPT !.cells[k] = [state |-> "INACTIVE", orig_asn |-> asn,
                               user |-> perpfx_perpeer_info_create]]

bgpwatcher_view_iter_activate_peer(peer) == [peer EXCEPT !.state = "ACTIVE"]

bgpwatcher_view_iter_deactivate_peer(peer) == [peer EXCEPT !.state = "INACTIVE"]

bgpwatcher_view_iter_pfx_activate_peer(cell) == [cell EXCEPT !.state = "ACTIVE"]

bgpwatcher_view_iter_pfx_deactivate_peer(cell) == [cell EXCEPT !.state = "INACTIVE"]

bgpwatcher_view_iter_pfx_peer_set_orig_asn(cell, asn) == [cell EXCEPT !.orig_asn = asn]

\* the peers of the view that belong to collector c
CollectorPeers(s, c) == {id \in PeerIds : id \in s.colls[c].collector_peerids}

(* ------------------------------------------------------------------ *)
(* stop_uc_process and reset_peerpfxdata                               *)
(* ------------------------------------------------------------------ *)

\* variant: the peers and the collector are cleared, the cells are left alone
stop_uc_process_keeps_cells(s, c) ==
  LET ids == CollectorPeers(s, c)
      peer1(id) ==
        IF s.peers[id] = NoPeer \/ id \notin ids THEN s.peers[id]
        ELSE [s.peers[id] EXCEPT !.user.bgp_time_uc_rib_start = 0,
                                 !.user.bgp_time_uc_rib_end = 0]
  IN [s EXCEPT !.peers = [id \in PeerIds |-> peer1(id)],
               !.colls[c].bgp_time_uc_rib_dump_time = 0,
               !.colls[c].bgp_time_uc_rib_start_time = 0]

stop_uc_process(s, c) ==
  LET ids == CollectorPeers(s, c)
      cell1(k) ==
        LET cell == s.cells[k]
            uc   == [cell EXCEPT !.user.bgp_time_uc_delta_ts = 0,
                                 !.user.uc_origin_asn = ROUTINGTABLES_DOWN_ORIGIN_ASN]
        IN IF cell = NoCell \/ k[2] \notin ids THEN cell
           ELSE IF s.peers[k[2]].state = "INACTIVE"
                THEN [uc EXCEPT !.orig_asn = ROUTINGTABLES_DOWN_ORIGIN_ASN,
                                !.user.bgp_time_last_ts = 0]
                ELSE uc
      peer1(id) ==
        IF s.peers[id] = NoPeer \/ id \notin ids THEN s.peers[id]
        ELSE [s.peers[id] EXCEPT !.user.bgp_time_uc_rib_start = 0,
                                 !.user.bgp_time_uc_rib_end = 0]
  IN [s EXCEPT !.cells = [k \in CellKeys |-> cell1(k)],
               !.peers = [id \in PeerIds |-> peer1(id)],
               !.colls[c].bgp_time_uc_rib_dump_time = 0,
               !.colls[c].bgp_time_uc_rib_start_time = 0]

\* variant: the under-construction fields are cleared whatever reset_uc says
reset_peerpfxdata_always_uc(s, peer_id, reset_uc) ==
  LET cell1(k) ==
        LET cell == s.cells[k]
        IN IF cell = NoCell \/ k[2] # peer_id THEN cell
           ELSE bgpwatcher_view_iter_pfx_deactivate_peer(
                  [cell EXCEPT !.orig_asn = ROUTINGTABLES_DOWN_ORIGIN_ASN,
                               !.user.bgp_time_last_ts = 0,
                               !.user.bgp_time_uc_delta_ts = 0,
                               !.user.uc_origin_asn = ROUTINGTABLES_DOWN_ORIGIN_ASN])
  IN IF s.peers[peer_id] = NoPeer THEN s
     ELSE [s EXCEPT !.cells = [k \in CellKeys |-> cell1(k)]]

reset_peerpfxdata(s, peer_id, reset_uc) ==
  LET cell1(k) ==
        LET cell == s.cells[k]
            live == bgpwatcher_view_iter_pfx_deactivate_peer(
                      [cell EXCEPT !.orig_asn = ROUTINGTABLES_DOWN_ORIGIN_ASN,
                                   !.user.bgp_time_last_ts = 0])
        IN IF cell = NoCell \/ k[2] # peer_id THEN cell
           ELSE IF reset_uc
                THEN [live EXCEPT !.user.bgp_time_uc_delta_ts = 0,
                                  !.user.uc_origin_asn = ROUTINGTABLES_DOWN_ORIGIN_ASN]
                ELSE live
  IN IF s.peers[peer_id] = NoPeer THEN s
     ELSE [s EXCEPT !.cells = [k \in CellKeys |-> cell1(k)]]

(* ------------------------------------------------------------------ *)
(* end_of_valid_rib                                                    *)
(* ------------------------------------------------------------------ *)

\* variant: the negation in front of the backlog test is lost
RibIsNewerInsideWindow(pp, p) ==
  /\ pp.bgp_time_uc_delta_ts + p.bgp_time_uc_rib_start > pp.bgp_time_last_ts
  /\ U32GtDiff(pp.bgp_time_last_ts, p.bgp_time_uc_rib_start,
               ROUTINGTABLES_RIB_BACKLOG_TIME)

\* the condition of the first branch of the scan: the RIB row is newer than
\* the live data and the live data is not inside the backlog window
RibIsNewer(pp, p) ==
  /\ pp.bgp_time_uc_delta_ts + p.bgp_time_uc_rib_start > pp.bgp_time_last_ts
  /\ ~ U32GtDiff(pp.bgp_time_last_ts, p.bgp_time_uc_rib_start,
                 ROUTINGTABLES_RIB_BACKLOG_TIME)

\* the cell takes part in the scan: its peer belongs to c and has RIB rows
InRibScan(s, c, k) ==
  /\ s.cells[k] # NoCell
  /\ k[2] \in CollectorPeers(s, c)
  /\ s.peers[k[2]].user.bgp_time_uc_rib_start # 0

\* the scan activates the peer of cell k (either branch)
RibActivates(s, c, k) ==
  /\ InRibScan(s, c, k)
  /\ IF RibIsNewer(s.cells[k].user, s.peers[k[2]].user)
     THEN s.cells[k].user.uc_origin_asn # ROUTINGTABLES_DOWN_ORIGIN_ASN
     ELSE s.cells[k].orig_asn # ROUTINGTABLES_DOWN_ORIGIN_ASN

\* variant: a missed announcement is counted on Active cells only
RibNegativeMismatchOfActive(s, c, k) ==
  /\ InRibScan(s, c, k)
  /\ RibIsNewer(s.cells[k].user, s.peers[k[2]].user)
  /\ s.cells[k].user.uc_origin_asn # ROUTINGTABLES_DOWN_ORIGIN_ASN
  /\ s.cells[k].user.bgp_time_last_ts # 0
  /\ s.cells[k].orig_asn = ROUTINGTABLES_DOWN_ORIGIN_ASN
  /\ s.cells[k].state = "ACTIVE"

\* the scan counts a missed announcement on cell k: the RIB is newer and has a
\* route, the live cell has a time and no origin
RibNegativeMismatch(s, c, k) ==
  /\ InRibScan(s, c, k)
  /\ RibIsNewer(s.cells[k].user, s.peers[k[2]].user)
  /\ s.cells[k].user.uc_origin_asn # ROUTINGTABLES_DOWN_ORIGIN_ASN
  /\ s.cells[k].user.bgp_time_last_ts # 0
  /\ s.cells[k].orig_asn = ROUTINGTABLES_DOWN_ORIGIN_ASN

\* the scan counts a missed withdrawal on cell k: the RIB is newer and has no
\* route, the live cell is Active
RibPositiveMismatch(s, c, k) ==
  /\ InRibScan(s, c, k)
  /\ RibIsNewer(s.cells[k].user, s.peers[k[2]].user)
  /\ s.cells[k].user.uc_origin_asn = ROUTINGTABLES_DOWN_ORIGIN_ASN
  /\ s.cells[k].state = "ACTIVE"

\* the mismatch counters of peer id after the scan
RibScanCounts(s, c, id) ==
  [s.peers[id] EXCEPT
     !.user.rib_negative_mismatches_cnt =
        @ + Cardinality({k \in CellKeys : k[2] = id /\ RibNegativeMismatch(s, c, k)}),
     !.user.rib_positive_mismatches_cnt =
        @ + Cardinality({k \in CellKeys : k[2] = id /\ RibPositiveMismatch(s, c, k)})]

RibScanCell(s, c, k) ==
  LET cell == s.cells[k]
      pp   == cell.user
      p    == s.peers[k[2]].user
      promoted ==
        bgpwatcher_view_iter_pfx_activate_peer(
          bgpwatcher_view_iter_pfx_peer_set_orig_asn(
            [cell EXCEPT !.user.bgp_time_last_ts =
                           pp.bgp_time_uc_delta_ts + p.bgp_time_uc_rib_start],
            pp.uc_origin_asn))
      absent ==
        bgpwatcher_view_iter_pfx_deactivate_peer(
          bgpwatcher_view_iter_pfx_peer_set_orig_asn(
            [cell EXCEPT !.user.bgp_time_last_ts = 0],
            ROUTINGTABLES_DOWN_ORIGIN_ASN))
      kept ==
        IF cell.orig_asn # ROUTINGTABLES_DOWN_ORIGIN_ASN
        THEN bgpwatcher_view_iter_pfx_activate_peer(cell)
        ELSE cell
      scanned ==
        IF RibIsNewer(pp, p)
        THEN IF pp.uc_origin_asn # ROUTINGTABLES_DOWN_ORIGIN_ASN THEN promoted ELSE absent
        ELSE kept
  IN IF ~ InRibScan(s, c, k) THEN cell
     ELSE [scanned EXCEPT !.user.bgp_time_uc_delta_ts = 0,
                          !.user.uc_origin_asn = ROUTINGTABLES_DOWN_ORIGIN_ASN]

\* variant: the scan activates the peer and leaves its FSM state alone
RibScanPeerKeepsFsm(s, c, id) ==
  LET peer == IF s.peers[id] = NoPeer THEN NoPeer ELSE RibScanCounts(s, c, id)
  IN IF peer # NoPeer /\ \E k \in CellKeys : k[2] = id /\ RibActivates(s, c, k)
     THEN bgpwatcher_view_iter_activate_peer(peer)
     ELSE peer

RibScanPeer(s, c, id) ==
  LET peer == IF s.peers[id] = NoPeer THEN NoPeer ELSE RibScanCounts(s, c, id)
  IN IF peer # NoPeer /\ \E k \in CellKeys : k[2] = id /\ RibActivates(s, c, k)
     THEN [bgpwatcher_view_iter_activate_peer(peer) EXCEPT
             !.user.bgp_fsm_state = "ESTABLISHED",
             !.user.bgp_time_ref_rib_start = peer.user.bgp_time_uc_rib_start,
             !.user.bgp_time_ref_rib_end = peer.user.bgp_time_uc_rib_end]
     ELSE peer

\* the peer loop demotes this peer: no RIB row, silent for too long, ESTABLISHED
RibDemotes(s, c, id) ==
  /\ s.peers[id] # NoPeer
  /\ id \in CollectorPeers(s, c)
  /\ s.peers[id].user.bgp_time_uc_rib_start = 0
  /\ U32LtDiff(s.peers[id].user.last_ts, s.colls[c].bgp_time_last,
               ROUTINGTABLES_MAX_INACTIVE_TIME)
  /\ s.peers[id].user.bgp_fsm_state = "ESTABLISHED"

RibPeerLoopCell(s, c, k) ==
  IF RibDemotes(s, c, k[2]) THEN reset_peerpfxdata(s, k[2], FALSE).cells[k]
  ELSE s.cells[k]

\* variant: the peer loop leaves the under-construction window of the peer
RibPeerLoopPeerKeepsUc(s, c, id) ==
  LET peer == s.peers[id]
  IN IF RibDemotes(s, c, id)
     THEN bgpwatcher_view_iter_deactivate_peer(
            [peer EXCEPT !.user.bgp_fsm_state = "UNKNOWN"])
     ELSE peer

RibPeerLoopPeer(s, c, id) ==
  LET peer == s.peers[id]
  IN IF peer = NoPeer \/ id \notin CollectorPeers(s, c) THEN peer
     ELSE IF peer.user.bgp_time_uc_rib_start = 0
             /\ U32LtDiff(peer.user.last_ts, s.colls[c].bgp_time_last,
                          ROUTINGTABLES_MAX_INACTIVE_TIME)
          THEN IF peer.user.bgp_fsm_state = "ESTABLISHED"
               THEN bgpwatcher_view_iter_deactivate_peer(
                      [peer EXCEPT !.user.bgp_fsm_state = "UNKNOWN"])
               ELSE peer
          ELSE [peer EXCEPT !.user.bgp_time_uc_rib_start = 0,
                            !.user.bgp_time_uc_rib_end = 0]

end_of_valid_rib(s, c) ==
  LET s1 == [s EXCEPT !.cells = [k \in CellKeys |-> RibScanCell(s, c, k)],
                      !.peers = [id \in PeerIds |-> RibScanPeer(s, c, id)]]
      s2 == [s1 EXCEPT !.cells = [k \in CellKeys |-> RibPeerLoopCell(s1, c, k)],
                       !.peers = [id \in PeerIds |-> RibPeerLoopPeer(s1, c, id)]]
  IN [s2 EXCEPT
        !.colls[c].bgp_time_ref_rib_dump_time = s.colls[c].bgp_time_uc_rib_dump_time,
        !.colls[c].bgp_time_ref_rib_start_time = s.colls[c].bgp_time_uc_rib_start_time,
        !.colls[c].bgp_time_uc_rib_dump_time = 0,
        !.colls[c].bgp_time_uc_rib_start_time = 0]

(* ------------------------------------------------------------------ *)
(* Folding one element                                                 *)
(* ------------------------------------------------------------------ *)

\* a failed assert() ends the process
Abort(s) == [s EXCEPT !.failed = TRUE]

\* variant: every update is counted as an announcement
update_prefix_peer_stats_as_announcement(pp, elem) ==
  [pp EXCEPT !.announcements = @ + 1]

update_prefix_peer_stats(pp, elem) ==
  IF elem.type = "ANNOUNCEMENT"
  THEN [pp EXCEPT !.announcements = @ + 1]
  ELSE [pp EXCEPT !.withdrawals = @ + 1]

\* the peer counters touched at the head of apply_prefix_update
CountPrefixUpdate(p, elem) ==
  IF elem.type = "ANNOUNCEMENT"
  THEN [p EXCEPT !.pfx_announcements_cnt = @ + 1]
  ELSE [p EXCEPT !.pfx_withdrawals_cnt = @ + 1]

\* variant: the revert clears the timestamp and leaves the origin
RevertPrefixUpdateKeepsOrigin(cell, elem) ==
  IF elem.type = "ANNOUNCEMENT"
  THEN [cell EXCEPT !.user.bgp_time_last_ts = 0, !.user.announcements = @ - 1]
  ELSE [cell EXCEPT !.user.bgp_time_last_ts = 0, !.user.withdrawals = @ - 1]

\* variant: the revert withdraws the origin and leaves the timestamp
RevertPrefixUpdateKeepsLastTs(cell, elem) ==
  LET down == bgpwatcher_view_iter_pfx_peer_set_orig_asn(
                cell, ROUTINGTABLES_DOWN_ORIGIN_ASN)
  IN IF elem.type = "ANNOUNCEMENT"
     THEN [down EXCEPT !.user.announcements = @ - 1]
     ELSE [down EXCEPT !.user.withdrawals = @ - 1]

\* case 2 of apply_prefix_update: the update of the cell is taken back
RevertPrefixUpdate(cell, elem) ==
  LET down == bgpwatcher_view_iter_pfx_peer_set_orig_asn(
                [cell EXCEPT !.user.bgp_time_last_ts = 0],
                ROUTINGTABLES_DOWN_ORIGIN_ASN)
  IN IF elem.type = "ANNOUNCEMENT"
     THEN [down EXCEPT !.user.announcements = @ - 1]
     ELSE [down EXCEPT !.user.withdrawals = @ - 1]

\* variant: on an Active peer any update activates an Inactive cell
apply_prefix_update_activates_any(s, c, peer_id, elem, ts) ==
  LET k   == <<elem.prefix, peer_id>>
      asn == IF elem.type = "ANNOUNCEMENT" THEN get_origin_asn(elem.aspath)
             ELSE ROUTINGTABLES_DOWN_ORIGIN_ASN
      s1  == [s EXCEPT !.peers[peer_id].user = CountPrefixUpdate(@, elem)]
      s2  == bgpwatcher_view_iter_add_pfx_peer(s1, k, asn)
      p   == s2.peers[peer_id].user
      old == s2.cells[k]
      new == bgpwatcher_view_iter_pfx_peer_set_orig_asn(
               [old EXCEPT !.user = update_prefix_peer_stats(
                                      [@ EXCEPT !.bgp_time_last_ts = ts], elem)],
               asn)
  IN IF ts < old.user.bgp_time_last_ts THEN s2
     ELSE IF s2.peers[peer_id].state = "ACTIVE"
     THEN IF new.state = "INACTIVE"
          THEN [s2 EXCEPT !.cells[k] = bgpwatcher_view_iter_pfx_activate_peer(new)]
          ELSE IF new.state = "ACTIVE" /\ elem.type = "WITHDRAWAL"
          THEN [s2 EXCEPT !.cells[k] = bgpwatcher_view_iter_pfx_deactivate_peer(new)]
          ELSE [s2 EXCEPT !.cells[k] = new]
     ELSE IF new.state # "INACTIVE" THEN Abort(s2)
     ELSE IF p.bgp_fsm_state = "UNKNOWN"
     THEN IF p.bgp_time_uc_rib_start # 0
          THEN [s2 EXCEPT !.cells[k] = new]
          ELSE [s2 EXCEPT !.cells[k] = RevertPrefixUpdate(new, elem)]
     ELSE [s2 EXCEPT
             !.peers[peer_id] =
                [bgpwatcher_view_iter_activate_peer(@) EXCEPT
                   !.user.bgp_fsm_state = "ESTABLISHED",
                   !.user.bgp_time_ref_rib_start = ts,
                   !.user.bgp_time_ref_rib_end = ts],
             !.cells[k] = IF elem.type = "ANNOUNCEMENT"
                          THEN bgpwatcher_view_iter_pfx_activate_peer(new)
                          ELSE new]

\* variant: an update older than the cell is applied like any other
apply_prefix_update_any_order(s, c, peer_id, elem, ts) ==
  LET k   == <<elem.prefix, peer_id>>
      asn == IF elem.type = "ANNOUNCEMENT" THEN get_origin_asn(elem.aspath)
             ELSE ROUTINGTABLES_DOWN_ORIGIN_ASN
      s1  == [s EXCEPT !.peers[peer_id].user = CountPrefixUpdate(@, elem)]
      s2  == bgpwatcher_view_iter_add_pfx_peer(s1, k, asn)
      p   == s2.peers[peer_id].user
      old == s2.cells[k]
      new == bgpwatcher_view_iter_pfx_peer_set_orig_asn(
               [old EXCEPT !.user = update_prefix_peer_stats(
                                      [@ EXCEPT !.bgp_time_last_ts = ts], elem)],
               asn)
  IN IF s2.peers[peer_id].state = "ACTIVE"
     THEN IF new.state = "INACTIVE" /\ elem.type = "ANNOUNCEMENT"
          THEN [s2 EXCEPT !.cells[k] = bgpwatcher_view_iter_pfx_activate_peer(new)]
          ELSE IF new.state = "ACTIVE" /\ elem.type = "WITHDRAWAL"
          THEN [s2 EXCEPT !.cells[k] = bgpwatcher_view_iter_pfx_deactivate_peer(new)]
          ELSE [s2 EXCEPT !.cells[k] = new]
     ELSE IF new.state # "INACTIVE" THEN Abort(s2)
     ELSE IF p.bgp_fsm_state = "UNKNOWN"
     THEN IF p.bgp_time_uc_rib_start # 0
          THEN [s2 EXCEPT !.cells[k] = new]
          ELSE [s2 EXCEPT !.cells[k] = RevertPrefixUpdate(new, elem)]
     ELSE [s2 EXCEPT
             !.peers[peer_id] =
                [bgpwatcher_view_iter_activate_peer(@) EXCEPT
                   !.user.bgp_fsm_state = "ESTABLISHED",
                   !.user.bgp_time_ref_rib_start = ts,
                   !.user.bgp_time_ref_rib_end = ts],
             !.cells[k] = IF elem.type = "ANNOUNCEMENT"
                          THEN bgpwatcher_view_iter_pfx_activate_peer(new)
                          ELSE new]

apply_prefix_update(s, c, peer_id, elem, ts) ==
  LET k   == <<elem.prefix, peer_id>>
      asn == IF elem.type = "ANNOUNCEMENT" THEN get_origin_asn(elem.aspath)
             ELSE ROUTINGTABLES_DOWN_ORIGIN_ASN
      s1  == [s EXCEPT !.peers[peer_id].user = CountPrefixUpdate(@, elem)]
      s2  == bgpwatcher_view_iter_add_pfx_peer(s1, k, asn)
      p   == s2.peers[peer_id].user
      old == s2.cells[k]
      new == bgpwatcher_view_iter_pfx_peer_set_orig_asn(
               [old EXCEPT !.user = update_prefix_peer_stats(
                                      [@ EXCEPT !.bgp_time_last_ts = ts], elem)],
               asn)
  IN IF ts < old.user.bgp_time_last_ts THEN s2
     ELSE IF s2.peers[peer_id].state = "ACTIVE"
     THEN IF new.state = "INACTIVE" /\ elem.type = "ANNOUNCEMENT"
          THEN [s2 EXCEPT !.cells[k] = bgpwatcher_view_iter_pfx_activate_peer(new)]
          ELSE IF new.state = "ACTIVE" /\ elem.type = "WITHDRAWAL"
          THEN [s2 EXCEPT !.cells[k] = bgpwatcher_view_iter_pfx_deactivate_peer(new)]
          ELSE [s2 EXCEPT !.cells[k] = new]
     ELSE IF new.state # "INACTIVE" THEN Abort(s2)
     ELSE IF p.bgp_fsm_state = "UNKNOWN"
     THEN IF p.bgp_time_uc_rib_start # 0
          THEN [s2 EXCEPT !.cells[k] = new]
          ELSE [s2 EXCEPT !.cells[k] = RevertPrefixUpdate(new, elem)]
     ELSE [s2 EXCEPT
             !.peers[peer_id] =
                [bgpwatcher_view_iter_activate_peer(@) EXCEPT
                   !.user.bgp_fsm_state = "ESTABLISHED",
                   !.user.bgp_time_ref_rib_start = ts,
                   !.user.bgp_time_ref_rib_end = ts],
             !.cells[k] = IF elem.type = "ANNOUNCEMENT"
                          THEN bgpwatcher_view_iter_pfx_activate_peer(new)
                          ELSE new]

\* variant: a message repeating the FSM state moves the reference window too
apply_state_update_always_moves(s, c, peer_id, new_state, ts) ==
  LET peer == s.peers[peer_id]
      p    == peer.user
      reset_uc == ts >= p.bgp_time_uc_rib_start
      down == [peer EXCEPT
                 !.user.bgp_fsm_state = new_state,
                 !.user.bgp_time_ref_rib_start = ts,
                 !.user.bgp_time_ref_rib_end = ts,
                 !.user.bgp_time_uc_rib_start = IF reset_uc THEN 0 ELSE @,
                 !.user.bgp_time_uc_rib_end = IF reset_uc THEN 0 ELSE @]
      moved == [peer EXCEPT
                  !.user.bgp_fsm_state = new_state,
                  !.user.bgp_time_ref_rib_start = ts,
                  !.user.bgp_time_ref_rib_end = ts]
      s1 == IF p.bgp_fsm_state = "ESTABLISHED" /\ new_state # "ESTABLISHED"
            THEN [reset_peerpfxdata([s EXCEPT !.peers[peer_id] = down],
                                    peer_id, reset_uc)
                    EXCEPT !.peers[peer_id] = bgpwatcher_view_iter_deactivate_peer(@)]
            ELSE IF p.bgp_fsm_state # "ESTABLISHED" /\ new_state = "ESTABLISHED"
            THEN [s EXCEPT !.peers[peer_id] = bgpwatcher_view_iter_activate_peer(moved)]
            ELSE [s EXCEPT !.peers[peer_id] = moved]
  IN IF (s1.peers[peer_id].user.bgp_fsm_state = "ESTABLISHED")
        = (s1.peers[peer_id].state = "ACTIVE")
     THEN s1
     ELSE Abort(s1)

apply_state_update(s, c, peer_id, new_state, ts) ==
  LET peer == s.peers[peer_id]
      p    == peer.user
      reset_uc == ts >= p.bgp_time_uc_rib_start
      down == [peer EXCEPT
                 !.user.bgp_fsm_state = new_state,
                 !.user.bgp_time_ref_rib_start = ts,
                 !.user.bgp_time_ref_rib_end = ts,
                 !.user.bgp_time_uc_rib_start = IF reset_uc THEN 0 ELSE @,
                 !.user.bgp_time_uc_rib_end = IF reset_uc THEN 0 ELSE @]
      moved == [peer EXCEPT
                  !.user.bgp_fsm_state = new_state,
                  !.user.bgp_time_ref_rib_start = ts,
                  !.user.bgp_time_ref_rib_end = ts]
      s1 == IF p.bgp_fsm_state = "ESTABLISHED" /\ new_state # "ESTABLISHED"
            THEN [reset_peerpfxdata([s EXCEPT !.peers[peer_id] = down],
                                    peer_id, reset_uc)
                    EXCEPT !.peers[peer_id] = bgpwatcher_view_iter_deactivate_peer(@)]
            ELSE IF p.bgp_fsm_state # "ESTABLISHED" /\ new_state = "ESTABLISHED"
            THEN [s EXCEPT !.peers[peer_id] = bgpwatcher_view_iter_activate_peer(moved)]
            ELSE IF p.bgp_fsm_state # new_state
            THEN [s EXCEPT !.peers[peer_id] = moved]
            ELSE s
  IN IF (s1.peers[peer_id].user.bgp_fsm_state = "ESTABLISHED")
        = (s1.peers[peer_id].state = "ACTIVE")
     THEN s1
     ELSE Abort(s1)

\* variant: every row restarts the under-construction window of the peer
apply_rib_message_restarts(s, c, peer_id, elem, ts) ==
  LET k  == <<elem.prefix, peer_id>>
      s1 == [s EXCEPT
               !.peers[peer_id].user.bgp_time_uc_rib_start = ts,
               !.peers[peer_id].user.bgp_time_uc_rib_end = ts]
      s2 == bgpwatcher_view_iter_add_pfx_peer(s1, k, ROUTINGTABLES_DOWN_ORIGIN_ASN)
  IN [s2 EXCEPT
        !.cells[k].user.bgp_time_uc_delta_ts =
           ts - s1.peers[peer_id].user.bgp_time_uc_rib_start,
        !.cells[k].user.uc_origin_asn = get_origin_asn(elem.aspath)]

apply_rib_message(s, c, peer_id, elem, ts) ==
  LET k  == <<elem.prefix, peer_id>>
      s1 == [s EXCEPT
               !.peers[peer_id].user.bgp_time_uc_rib_start = IF @ = 0 THEN ts ELSE @,
               !.peers[peer_id].user.bgp_time_uc_rib_end = ts]
      s2 == bgpwatcher_view_iter_add_pfx_peer(s1, k, ROUTINGTABLES_DOWN_ORIGIN_ASN)
  IN [s2 EXCEPT
        !.cells[k].user.bgp_time_uc_delta_ts =
           ts - s1.peers[peer_id].user.bgp_time_uc_rib_start,
        !.cells[k].user.uc_origin_asn = get_origin_asn(elem.aspath)]

(* ------------------------------------------------------------------ *)
(* Records                                                             *)
(* ------------------------------------------------------------------ *)

\* variant: the peer-path sanity test is applied to announcements only
SkipElemOfAnnouncements(elem) ==
  /\ elem.type \in {"ANNOUNCEMENT"}
  /\ \/ Len(elem.aspath) = 0
     \/ /\ elem.aspath[1].type = "ASN"
        /\ elem.aspath[1].asn # PeerAsn(elem.peer)

\* the peer-path sanity test at the head of the element loop
SkipElem(elem) ==
  /\ elem.type \in {"RIB", "ANNOUNCEMENT"}
  /\ \/ Len(elem.aspath) = 0
     \/ /\ elem.aspath[1].type = "ASN"
        /\ elem.aspath[1].asn # PeerAsn(elem.peer)

\* one pass of the element loop of collector_process_valid_bgpinfo
ProcessElem(s, c, record, elem) ==
  IF SkipElem(elem) THEN s
  ELSE
    LET peer_id == elem.peer
        ts == record.record_time
        s1 == bgpwatcher_view_iter_add_peer(s, peer_id)
        s2 == [s1 EXCEPT !.peers[peer_id].user.last_ts = ts,
                         !.colls[c].collector_peerids = @ \cup {peer_id}]
    IN IF elem.type \in {"ANNOUNCEMENT", "WITHDRAWAL"}
       THEN apply_prefix_update(s2, c, peer_id, elem, ts)
       ELSE IF elem.type = "PEERSTATE"
       THEN apply_state_update(s2, c, peer_id, elem.new_state, ts)
       ELSE apply_rib_message(s2, c, peer_id, elem, ts)

RECURSIVE ProcessElems(_, _, _, _)
ProcessElems(s, c, record, i) ==
  IF i > Len(record.elems) \/ s.failed THEN s
  ELSE ProcessElems(ProcessElem(s, c, record, record.elems[i]), c, record, i + 1)

\* variant: the rows of a RIB record are applied whatever dump they belong to
collector_process_valid_bgpinfo_any_dump(s, c, record) ==
  LET s1 == IF record.dump_type = "RIB" /\ record.dump_pos = "START"
            THEN [(IF s.colls[c].bgp_time_uc_rib_dump_time # 0
                   THEN stop_uc_process(s, c) ELSE s)
                    EXCEPT !.colls[c].bgp_time_uc_rib_dump_time = record.dump_time,
                           !.colls[c].bgp_time_uc_rib_start_time = record.record_time]
            ELSE s
      s2 == ProcessElems(s1, c, record, 1)
  IN IF s2.failed THEN s2
     ELSE IF record.dump_type = "RIB" /\ record.dump_pos = "END"
     THEN end_of_valid_rib(s2, c)
     ELSE s2

collector_process_valid_bgpinfo(s, c, record) ==
  LET s1 == IF record.dump_type = "RIB" /\ record.dump_pos = "START"
            THEN [(IF s.colls[c].bgp_time_uc_rib_dump_time # 0
                   THEN stop_uc_process(s, c) ELSE s)
                    EXCEPT !.colls[c].bgp_time_uc_rib_dump_time = record.dump_time,
                           !.colls[c].bgp_time_uc_rib_start_time = record.record_time]
            ELSE s
      s2 == ProcessElems(s1, c, record, 1)
  IN IF record.dump_type = "RIB"
        /\ record.dump_time # s1.colls[c].bgp_time_uc_rib_dump_time
     THEN s1
     ELSE IF s2.failed THEN s2
     ELSE IF record.dump_type = "RIB" /\ record.dump_pos = "END"
     THEN end_of_valid_rib(s2, c)
     ELSE s2

\* the peers of c whose live view a corrupted record at ts affects
CorAffected(s, c, ts) ==
  {id \in CollectorPeers(s, c) :
     /\ s.peers[id].user.bgp_time_ref_rib_start # 0
     /\ ts >= s.peers[id].user.bgp_time_ref_rib_start}

\* variant: the under-construction test reads the reference RIB start
CorUcAffectedByRef(s, c, ts) ==
  {id \in CollectorPeers(s, c) :
     /\ s.peers[id].user.bgp_time_ref_rib_start # 0
     /\ ts >= s.peers[id].user.bgp_time_ref_rib_start}

\* the peers of c whose under-construction RIB a corrupted record at ts affects
CorUcAffected(s, c, ts) ==
  {id \in CollectorPeers(s, c) :
     /\ s.peers[id].user.bgp_time_uc_rib_start # 0
     /\ ts >= s.peers[id].user.bgp_time_uc_rib_start}

collector_process_corrupted_message(s, c, record) ==
  LET ts == record.record_time
      cor_affected == CorAffected(s, c, ts)
      cor_uc_affected == CorUcAffected(s, c, ts)
      cell1(k) ==
        LET cell == s.cells[k]
            live == IF k[2] \in cor_affected
                       /\ cell.user.bgp_time_last_ts # 0
                       /\ cell.user.bgp_time_last_ts <= ts
                    THEN bgpwatcher_view_iter_pfx_deactivate_peer(
                           bgpwatcher_view_iter_pfx_peer_set_orig_asn(
                             [cell EXCEPT !.user.bgp_time_last_ts = 0],
                             ROUTINGTABLES_DOWN_ORIGIN_ASN))
                    ELSE cell
        IN IF cell = NoCell THEN cell
           ELSE IF k[2] \in cor_uc_affected
                THEN [live EXCEPT !.user.bgp_time_uc_delta_ts = 0,
                                  !.user.uc_origin_asn = ROUTINGTABLES_DOWN_ORIGIN_ASN]
                ELSE live
      peer1(id) ==
        LET peer == s.peers[id]
            live == IF id \in cor_affected
                    THEN bgpwatcher_view_iter_deactivate_peer(
                           [peer EXCEPT !.user.bgp_fsm_state = "UNKNOWN",
                                        !.user.bgp_time_ref_rib_start = 0,
                                        !.user.bgp_time_ref_rib_end = 0])
                    ELSE peer
        IN IF peer = NoPeer THEN peer
           ELSE IF id \in cor_uc_affected
                THEN [live EXCEPT !.user.bgp_time_uc_rib_start = 0,
                                  !.user.bgp_time_uc_rib_end = 0]
                ELSE live
  IN [s EXCEPT !.cells = [k \in CellKeys |-> cell1(k)],
               !.peers = [id \in PeerIds |-> peer1(id)]]

\* variant: the peer loop counts every peer of the view, whatever its collector
update_collector_state_all_peers(s, c, record) ==
  LET ids == {id \in PeerIds : s.peers[id] # NoPeer}
      active == {id \in ids : s.peers[id].state = "ACTIVE"}
      unknown == \A id \in ids \ active : s.peers[id].user.bgp_fsm_state = "UNKNOWN"
  IN [s EXCEPT
        !.colls[c].bgp_time_last =
           IF record.record_time > @ THEN record.record_time ELSE @,
        !.colls[c].active_peers_cnt = Cardinality(active),
        !.colls[c].state = IF active # {} THEN "UP"
                           ELSE IF unknown THEN "UNKNOWN" ELSE "DOWN"]

update_collector_state(s, c, record) ==
  LET ids == CollectorPeers(s, c)
      active == {id \in ids : s.peers[id].state = "ACTIVE"}
      unknown == \A id \in ids \ active : s.peers[id].user.bgp_fsm_state = "UNKNOWN"
  IN [s EXCEPT
        !.colls[c].bgp_time_last =
           IF record.record_time > @ THEN record.record_time ELSE @,
        !.colls[c].active_peers_cnt = Cardinality(active),
        !.colls[c].state = IF active # {} THEN "UP"
                           ELSE IF unknown THEN "UNKNOWN" ELSE "DOWN"]

\* the record is older than the reference RIB while a RIB is under construction
DiscardRecord(s, c, record) ==
  /\ record.record_time < s.colls[c].bgp_time_ref_rib_start_time
  /\ s.colls[c].bgp_time_uc_rib_dump_time # 0

\* the FILTERED_SOURCE / EMPTY_SOURCE case of routingtables_process_record
ProcessEmptyStatus(s, c, record) ==
  IF record.record_time < s.colls[c].bgp_time_last
  THEN [s EXCEPT !.colls[c].bgp_time_last = record.record_time]
  ELSE s

routingtables_process_record(s, record) ==
  LET c  == record.collector
      s0 == get_collector_data(s, c)
      s1 == IF record.status = "VALID_RECORD"
            THEN [collector_process_valid_bgpinfo(s0, c, record)
                    EXCEPT !.colls[c].valid_record_cnt = @ + 1]
            ELSE IF record.status \in {"CORRUPTED_SOURCE", "CORRUPTED_RECORD"}
            THEN [collector_process_corrupted_message(s0, c, record)
                    EXCEPT !.colls[c].corrupted_record_cnt = @ + 1]
            ELSE [ProcessEmptyStatus(s0, c, record)
                    EXCEPT !.colls[c].empty_record_cnt = @ + 1]
  IN IF DiscardRecord(s0, c, record) THEN s0
     ELSE IF s1.failed THEN s1
     ELSE update_collector_state(s1, c, record)

(* ------------------------------------------------------------------ *)
(* The patricia trie (bgpstream_utils_patricia.c)                      *)
(* ------------------------------------------------------------------ *)

\* addresses are AddrBits bits long (32 and 128 in the source); the same number
\* stands for BGPSTREAM_PATRICIA_MAXBITS
AddrBits == 3

BGPSTREAM_PATRICIA_MAXBITS == AddrBits

\* cap of the distance between a node counter and zero, enforced by the guards
\* of the trie actions
MaxActiveNodes == 4

\* a prefix: address family, address bits (most significant first), mask length
Pfx(v, addr, len) == [version |-> v, addr |-> addr, mask_len |-> len]

\* the prefixes the trie actions draw: 0/1, 0/2, 2/2 and 4/1 in IPv4 (three-bit
\* addresses), ::/0 in IPv6
TriePfxs ==
  { Pfx("IPV4", <<0, 0, 0>>, 1), Pfx("IPV4", <<0, 0, 0>>, 2),
    Pfx("IPV4", <<0, 1, 0>>, 2), Pfx("IPV4", <<1, 0, 0>>, 1),
    Pfx("IPV6", <<0, 0, 0>>, 0) }

\* node pointers; 0 is NULL. A trie of n prefixes has at most 2n - 1 nodes.
NodeIds == 1..(2 * Cardinality(TriePfxs))

\* memory that holds no node
FreeNode ==
  [bit |-> 0, prefix |-> Pfx("FREE", <<0, 0, 0>>, 0), l |-> 0, r |-> 0, parent |-> 0]

\* malloc_zero: an address that holds no node
malloc_zero(pt) == CHOOSE n \in NodeIds :
                     /\ pt.nodes[n] = FreeNode
                     /\ \A m \in NodeIds : pt.nodes[m] = FreeNode => n <= m

BIT_TEST(addr, b) == addr[b + 1] = 1

\* a failed assert() ends the process
AbortTrie(pt) == [pt EXCEPT !.failed = TRUE]

bgpstream_patricia_tree_create ==
  [head4 |-> 0, head6 |-> 0, ipv4_active_nodes |-> 0, ipv6_active_nodes |-> 0,
   nodes |-> [n \in NodeIds |-> FreeNode], failed |-> FALSE]

bgpstream_patricia_get_head(pt, v) == IF v = "IPV4" THEN pt.head4 ELSE pt.head6

bgpstream_patricia_set_head(pt, v, n) ==
  IF v = "IPV4" THEN [pt EXCEPT !.head4 = n] ELSE [pt EXCEPT !.head6 = n]

\* the tree with a new prefix node at address n
bgpstream_patricia_node_create(pt, pfx, n) ==
  LET counted == IF pfx.version = "IPV4"
                 THEN [pt EXCEPT !.ipv4_active_nodes = @ + 1]
                 ELSE [pt EXCEPT !.ipv6_active_nodes = @ + 1]
  IN [counted EXCEPT !.nodes[n] =
        [bit |-> pfx.mask_len, prefix |-> pfx, l |-> 0, r |-> 0, parent |-> 0]]

\* the tree with a new glue node at address n
bgpstream_patricia_gluenode_create(pt, n) ==
  [pt EXCEPT !.nodes[n] =
     [bit |-> 0, prefix |-> Pfx("UNKNOWN", <<0, 0, 0>>, 0),
      l |-> 0, r |-> 0, parent |-> 0]]

\* the descent of bgpstream_patricia_tree_insert: the node the loop stops at
RECURSIVE InsertDescend(_, _, _)
InsertDescend(pt, pfx, n) ==
  LET node == pt.nodes[n]
  IN IF node.bit < pfx.mask_len \/ node.prefix.version = "UNKNOWN"
     THEN IF node.bit < BGPSTREAM_PATRICIA_MAXBITS /\ BIT_TEST(pfx.addr, node.bit)
          THEN IF node.r = 0 THEN n ELSE InsertDescend(pt, pfx, node.r)
          ELSE IF node.l = 0 THEN n ELSE InsertDescend(pt, pfx, node.l)
     ELSE n

\* variant: the addresses are taken to agree on every bit below check_bit
DifferBitIgnoresAddress(addr, test_addr, check_bit) == check_bit

\* the first bit where the two addresses differ, below check_bit, else check_bit
DifferBit(addr, test_addr, check_bit) ==
  LET diffs == {j \in 0..(check_bit - 1) : addr[j + 1] # test_addr[j + 1]}
  IN IF diffs = {} THEN check_bit
     ELSE CHOOSE j \in diffs : \A i \in diffs : j <= i

\* the ascent of bgpstream_patricia_tree_insert: up while the parent's bit is
\* at or beyond differ_bit
RECURSIVE InsertAscend(_, _, _)
InsertAscend(pt, n, differ_bit) ==
  LET parent == pt.nodes[n].parent
  IN IF parent # 0 /\ pt.nodes[parent].bit >= differ_bit
     THEN InsertAscend(pt, parent, differ_bit)
     ELSE n

\* the link of parent that points to node now points to new
ReplaceChild(pt, parent, node, new) ==
  IF pt.nodes[parent].r = node
  THEN [pt EXCEPT !.nodes[parent].r = new]
  ELSE [pt EXCEPT !.nodes[parent].l = new]

\* bgpstream_patricia_tree_insert: the tree after the call and the node returned
bgpstream_patricia_tree_insert(pt, pfx) ==
  LET v == pfx.version
      bitlen == pfx.mask_len
      addr == pfx.addr
      head == bgpstream_patricia_get_head(pt, v)
      stop == InsertDescend(pt, pfx, head)
      test_addr == pt.nodes[stop].prefix.addr
      check_bit == IF pt.nodes[stop].bit < bitlen THEN pt.nodes[stop].bit ELSE bitlen
      differ_bit == DifferBit(addr, test_addr, check_bit)
      node_it == InsertAscend(pt, stop, differ_bit)
      it == pt.nodes[node_it]
      new_node == malloc_zero(pt)
      created == bgpstream_patricia_node_create(pt, pfx, new_node)
      glue_node == malloc_zero(created)
      glued == bgpstream_patricia_gluenode_create(created, glue_node)
  IN IF head = 0
     THEN [pt |-> bgpstream_patricia_set_head(created, v, new_node),
           node |-> new_node]
     ELSE IF pt.nodes[stop].prefix.version = "UNKNOWN"
     THEN [pt |-> AbortTrie(pt), node |-> 0]
     ELSE IF differ_bit = bitlen /\ it.bit = bitlen
     THEN IF it.prefix.version # "UNKNOWN"
          THEN [pt |-> pt, node |-> node_it]
          ELSE [pt |-> [pt EXCEPT !.nodes[node_it].prefix = pfx], node |-> node_it]
     ELSE IF it.bit = differ_bit
     THEN IF it.bit < BGPSTREAM_PATRICIA_MAXBITS /\ BIT_TEST(addr, it.bit)
          THEN IF it.r # 0 THEN [pt |-> AbortTrie(pt), node |-> 0]
               ELSE [pt |-> [created EXCEPT !.nodes[new_node].parent = node_it,
                                            !.nodes[node_it].r = new_node],
                     node |-> new_node]
          ELSE IF it.l # 0 THEN [pt |-> AbortTrie(pt), node |-> 0]
               ELSE [pt |-> [created EXCEPT !.nodes[new_node].parent = node_it,
                                            !.nodes[node_it].l = new_node],
                     node |-> new_node]
     ELSE IF bitlen = differ_bit
     THEN LET right == bitlen < BGPSTREAM_PATRICIA_MAXBITS /\ BIT_TEST(test_addr, bitlen)
              linked == [created EXCEPT
                           !.nodes[new_node].r = IF right THEN node_it ELSE 0,
                           !.nodes[new_node].l = IF right THEN 0 ELSE node_it,
                           !.nodes[new_node].parent = it.parent,
                           !.nodes[node_it].parent = new_node]
          IN IF it.parent = 0
             THEN IF head # node_it THEN [pt |-> AbortTrie(pt), node |-> 0]
                  ELSE [pt |-> bgpstream_patricia_set_head(linked, v, new_node),
                        node |-> new_node]
             ELSE [pt |-> ReplaceChild(linked, it.parent, node_it, new_node),
                   node |-> new_node]
     ELSE LET right == differ_bit < BGPSTREAM_PATRICIA_MAXBITS /\ BIT_TEST(addr, differ_bit)
              linked == [glued EXCEPT
                           !.nodes[glue_node].bit = differ_bit,
                           !.nodes[glue_node].parent = it.parent,
                           !.nodes[glue_node].r = IF right THEN new_node ELSE node_it,
                           !.nodes[glue_node].l = IF right THEN node_it ELSE new_node,
                           !.nodes[new_node].parent = glue_node,
                           !.nodes[node_it].parent = glue_node]
          IN IF it.parent = 0
             THEN IF head # node_it THEN [pt |-> AbortTrie(pt), node |-> 0]
                  ELSE [pt |-> bgpstream_patricia_set_head(linked, v, glue_node),
                        node |-> new_node]
             ELSE [pt |-> ReplaceChild(linked, it.parent, node_it, glue_node),
                   node |-> new_node]

\* the first mask bits of the two addresses are equal
comp_with_mask(addr, dest, mask) ==
  \A j \in 1..mask : addr[j] = dest[j]

\* the descent of bgpstream_patricia_tree_search_exact; 0 when it falls off
RECURSIVE SearchDescend(_, _, _)
SearchDescend(pt, pfx, n) ==
  LET node == pt.nodes[n]
      next == IF BIT_TEST(pfx.addr, node.bit) THEN node.r ELSE node.l
  IN IF node.bit < pfx.mask_len
     THEN IF next = 0 THEN 0 ELSE SearchDescend(pt, pfx, next)
     ELSE n

bgpstream_patricia_tree_search_exact(pt, pfx) ==
  LET head == bgpstream_patricia_get_head(pt, pfx.version)
      node_it == IF head = 0 THEN 0 ELSE SearchDescend(pt, pfx, head)
  IN IF node_it = 0 THEN 0
     ELSE IF pt.nodes[node_it].bit > pfx.mask_len
             \/ pt.nodes[node_it].prefix.version = "UNKNOWN"
     THEN 0
     ELSE IF comp_with_mask(pt.nodes[node_it].prefix.addr, pfx.addr, pfx.mask_len)
     THEN node_it
     ELSE 0

\* free(node) and the decrement of the node counter of family v
FreeCounted(pt, v, node) ==
  IF v = "IPV6"
  THEN [pt EXCEPT !.nodes[node] = FreeNode, !.ipv6_active_nodes = @ - 1]
  ELSE [pt EXCEPT !.nodes[node] = FreeNode, !.ipv4_active_nodes = @ - 1]

\* bgpstream_patricia_tree_remove_node, the node has no children
RemoveLeaf(pt, v, node) ==
  LET parent == pt.nodes[node].parent
      freed == FreeCounted(pt, v, node)
      child == IF pt.nodes[parent].r = node THEN pt.nodes[parent].l
               ELSE pt.nodes[parent].r
      cut == IF pt.nodes[parent].r = node
             THEN [freed EXCEPT !.nodes[parent].r = 0]
             ELSE [freed EXCEPT !.nodes[parent].l = 0]
      grand == pt.nodes[parent].parent
      lifted == IF grand = 0
                THEN bgpstream_patricia_set_head(cut, v, child)
                ELSE ReplaceChild(cut, grand, parent, child)
  IN IF parent = 0
     THEN IF bgpstream_patricia_get_head(pt, v) # node THEN AbortTrie(freed)
          ELSE bgpstream_patricia_set_head(freed, v, 0)
     ELSE IF pt.nodes[parent].r # node /\ pt.nodes[parent].l # node
     THEN AbortTrie(freed)
     ELSE IF pt.nodes[parent].prefix.version # "UNKNOWN" THEN cut
     ELSE IF grand = 0 /\ bgpstream_patricia_get_head(pt, v) # parent
     THEN AbortTrie(cut)
     ELSE IF grand # 0 /\ pt.nodes[grand].r # parent /\ pt.nodes[grand].l # parent
     THEN AbortTrie(cut)
     ELSE [lifted EXCEPT !.nodes[child].parent = grand,
                         !.nodes[parent] = FreeNode]

\* bgpstream_patricia_tree_remove_node, the node has one child
RemoveOneChild(pt, v, node) ==
  LET child == IF pt.nodes[node].r # 0 THEN pt.nodes[node].r ELSE pt.nodes[node].l
      parent == pt.nodes[node].parent
      freed == FreeCounted([pt EXCEPT !.nodes[child].parent = parent], v, node)
  IN IF parent = 0
     THEN IF parent # bgpstream_patricia_get_head(pt, v) THEN AbortTrie(freed)
          ELSE bgpstream_patricia_set_head(freed, v, child)
     ELSE IF pt.nodes[parent].r = node
     THEN [freed EXCEPT !.nodes[parent].r = child]
     ELSE IF pt.nodes[parent].l # node THEN AbortTrie(freed)
     ELSE [freed EXCEPT !.nodes[parent].l = child]

bgpstream_patricia_tree_remove_node(pt, node) ==
  IF node = 0 THEN pt
  ELSE LET v == pt.nodes[node].prefix.version
       IN IF v = "UNKNOWN" THEN pt
          ELSE IF pt.nodes[node].r # 0 /\ pt.nodes[node].l # 0
          THEN [pt EXCEPT !.nodes[node].prefix.version = "UNKNOWN"]
          ELSE IF pt.nodes[node].r = 0 /\ pt.nodes[node].l = 0
          THEN RemoveLeaf(pt, v, node)
          ELSE RemoveOneChild(pt, v, node)

bgpstream_patricia_tree_remove(pt, pfx) ==
  bgpstream_patricia_tree_remove_node(pt, bgpstream_patricia_tree_search_exact(pt, pfx))

bgpstream_patricia_prefix_count(pt, v) ==
  IF v = "IPV4" THEN pt.ipv4_active_nodes
  ELSE IF v = "IPV6" THEN pt.ipv6_active_nodes
  ELSE 0

\* routingtables_process_record when bgpwatcher_view_iter_add_peer fails at the
\* k-th element of a valid record: the elements before k are applied, the
\* element loop returns -1 before end_of_valid_rib, the record is counted and
\* update_collector_state runs
routingtables_process_record_failing(s, record, k) ==
  LET c  == record.collector
      s0 == get_collector_data(s, c)
      s1 == IF record.dump_type = "RIB" /\ record.dump_pos = "START"
            THEN [(IF s0.colls[c].bgp_time_uc_rib_dump_time # 0
                   THEN stop_uc_process(s0, c) ELSE s0)
                    EXCEPT !.colls[c].bgp_time_uc_rib_dump_time = record.dump_time,
                           !.colls[c].bgp_time_uc_rib_start_time = record.record_time]
            ELSE s0
      s2 == ProcessElems(s1, c, [record EXCEPT !.elems = SubSeq(@, 1, k - 1)], 1)
      s3 == [s2 EXCEPT !.colls[c].valid_record_cnt = @ + 1]
  IN IF s2.failed THEN s2 ELSE update_collector_state(s3, c, record)

\* add_peer is reached at the k-th element of the record
ReachesAddPeer(s, record, k) ==
  LET c  == record.collector
      s0 == get_collector_data(s, c)
  IN /\ record.status = "VALID_RECORD"
     /\ k \in 1..Len(record.elems)
     /\ ~ SkipElem(record.elems[k])
     /\ ~ DiscardRecord(s0, c, record)
     /\ record.dump_type = "RIB"
          => record.dump_time =
               (IF record.dump_pos = "START" THEN record.dump_time
                ELSE s0.colls[c].bgp_time_uc_rib_dump_time)

(* ------------------------------------------------------------------ *)
(* bgpwatcher server                                                   *)
(* ------------------------------------------------------------------ *)

\* The clients that may talk to the server. The client table is a hash keyed
\* by the client id; its slots are walked in slot order, which is the order of
\* the ids here.
ClientIds == {1, 2}

MaxClock == 2

MaxTables == 2

\* server->heartbeat_interval and server->heartbeat_liveness, in clock ticks
HeartbeatInterval == 1

HeartbeatLiveness == 2

\* a slot of the hash without a client
NoClient ==
  [present |-> FALSE, expiry |-> 0,
   pfx_table_started |-> 0, peer_table_started |-> 0,
   pfx_table_id |-> 0, peer_table_id |-> 0]

\* bgpwatcher_server_init followed by the seeding of heartbeat_next in
\* bgpwatcher_server_start at time now; rc is the value the last run_server
\* returned, calls are the callbacks it invoked, err is the error state
bgpwatcher_server_init(now) ==
  [clients |-> [c \in ClientIds |-> NoClient],
   table_num |-> 0,
   heartbeat_next |-> now + HeartbeatInterval,
   rc |-> 0, calls |-> <<>>, err |-> FALSE]

\* bgpwatcher_err_set_err
bgpwatcher_err_set_err(s) == [s EXCEPT !.err = TRUE]

\* DO_CALLBACK: the callback is invoked for the client; the caller tests
\* whether it failed
DO_CALLBACK(s, cbfunc, c) == [s EXCEPT !.calls = Append(@, <<cbfunc, c>>)]

\* client_init: zeroed state, expiry set, put into the hash
client_init(s, c, now) ==
  [s EXCEPT !.clients[c] =
     [NoClient EXCEPT !.present = TRUE,
                      !.expiry = now + HeartbeatInterval * HeartbeatLiveness]]

\* client_get: a tracked client has its expiry touched
client_get(s, c, now) ==
  IF s.clients[c].present
  THEN [s EXCEPT !.clients[c].expiry = now + HeartbeatInterval * HeartbeatLiveness]
  ELSE s

\* clients_remove and client_free
clients_remove(s, c) == [s EXCEPT !.clients[c] = NoClient]

\* the loop of clients_purge from slot k on; the callback of a dead client
\* fails when its id is in cb_fail
RECURSIVE PurgeFrom(_, _, _, _)
PurgeFrom(s, k, now, cb_fail) ==
  IF k \notin ClientIds THEN [s |-> s, rc |-> 0]
  ELSE IF ~ s.clients[k].present THEN PurgeFrom(s, k + 1, now, cb_fail)
  ELSE IF now < s.clients[k].expiry THEN [s |-> s, rc |-> 0]
  ELSE IF k \in cb_fail
  THEN [s |-> DO_CALLBACK(s, "client_disconnect", k), rc |-> 0 - 1]
  ELSE PurgeFrom(clients_remove(DO_CALLBACK(s, "client_disconnect", k), k),
                 k + 1, now, cb_fail)

clients_purge(s, now, cb_fail) == PurgeFrom(s, 1, now, cb_fail)

\* handle_table_prefix
handle_table_prefix(s, c, type, m) ==
  IF m.fault = "payload" THEN [s |-> bgpwatcher_err_set_err(s), rc |-> 0 - 1]
  ELSE IF type = "TABLE_BEGIN"
  THEN IF s.clients[c].pfx_table_started # 0
       THEN [s |-> bgpwatcher_err_set_err(s), rc |-> 0 - 1]
       ELSE LET started == [s EXCEPT !.clients[c].pfx_table_id = s.table_num,
                                     !.table_num = @ + 1,
                                     !.clients[c].pfx_table_started = 1]
            IN [s |-> DO_CALLBACK(started, "table_begin_prefix", c),
                rc |-> IF m.fault = "cb" THEN 0 - 1 ELSE 0]
  ELSE IF type = "TABLE_END"
  THEN IF s.clients[c].pfx_table_started = 0
       THEN [s |-> bgpwatcher_err_set_err(s), rc |-> 0 - 1]
       ELSE LET ended == [s EXCEPT !.clients[c].pfx_table_started = 0]
            IN [s |-> DO_CALLBACK(ended, "table_end_prefix", c),
                rc |-> IF m.fault = "cb" THEN 0 - 1 ELSE 0]
  ELSE [s |-> bgpwatcher_err_set_err(s), rc |-> 0]

\* handle_table_peer without the test of peer_table_started at TABLE_END
handle_table_peer_any_end(s, c, type, m) ==
  IF m.fault = "payload" THEN [s |-> bgpwatcher_err_set_err(s), rc |-> 0 - 1]
  ELSE IF type = "TABLE_BEGIN"
  THEN IF s.clients[c].peer_table_started # 0
       THEN [s |-> bgpwatcher_err_set_err(s), rc |-> 0 - 1]
       ELSE LET started == [s EXCEPT !.clients[c].peer_table_id = s.table_num,
                                     !.table_num = @ + 1,
                                     !.clients[c].peer_table_started = 1]
            IN [s |-> DO_CALLBACK(started, "table_begin_peer", c),
                rc |-> IF m.fault = "cb" THEN 0 - 1 ELSE 0]
  ELSE LET ended == [s EXCEPT !.clients[c].peer_table_started = 0]
       IN [s |-> DO_CALLBACK(ended, "table_end_peer", c),
           rc |-> IF m.fault = "cb" THEN 0 - 1 ELSE 0]

\* handle_table_peer
handle_table_peer(s, c, type, m) ==
  IF m.fault = "payload" THEN [s |-> bgpwatcher_err_set_err(s), rc |-> 0 - 1]
  ELSE IF type = "TABLE_BEGIN"
  THEN IF s.clients[c].peer_table_started # 0
       THEN [s |-> bgpwatcher_err_set_err(s), rc |-> 0 - 1]
       ELSE LET started == [s EXCEPT !.clients[c].peer_table_id = s.table_num,
                                     !.table_num = @ + 1,
                                     !.clients[c].peer_table_started = 1]
            IN [s |-> DO_CALLBACK(started, "table_begin_peer", c),
                rc |-> IF m.fault = "cb" THEN 0 - 1 ELSE 0]
  ELSE IF type = "TABLE_END"
  THEN IF s.clients[c].peer_table_started = 0
       THEN [s |-> bgpwatcher_err_set_err(s), rc |-> 0 - 1]
       ELSE LET ended == [s EXCEPT !.clients[c].peer_table_started = 0]
            IN [s |-> DO_CALLBACK(ended, "table_end_peer", c),
                rc |-> IF m.fault = "cb" THEN 0 - 1 ELSE 0]
  ELSE [s |-> bgpwatcher_err_set_err(s), rc |-> 0]

\* handle_table: the table type frame selects the table
handle_table(s, c, m, type) ==
  IF m.table_type = "PREFIX" THEN handle_table_prefix(s, c, type, m)
  ELSE IF m.table_type = "PEER" THEN handle_table_peer(s, c, type, m)
  ELSE [s |-> bgpwatcher_err_set_err(s), rc |-> 0 - 1]

\* handle_pfx_record
handle_pfx_record(s, c, m) ==
  IF s.clients[c].pfx_table_started = 0
  THEN [s |-> bgpwatcher_err_set_err(s), rc |-> 0 - 1]
  ELSE IF m.fault = "payload" THEN [s |-> bgpwatcher_err_set_err(s), rc |-> 0 - 1]
  ELSE [s |-> DO_CALLBACK(s, "recv_pfx_record", c),
        rc |-> IF m.fault = "cb" THEN 0 - 1 ELSE 0]

\* handle_peer_record
handle_peer_record(s, c, m) ==
  IF s.clients[c].peer_table_started = 0
  THEN [s |-> bgpwatcher_err_set_err(s), rc |-> 0 - 1]
  ELSE IF m.fault = "payload" THEN [s |-> bgpwatcher_err_set_err(s), rc |-> 0 - 1]
  ELSE [s |-> DO_CALLBACK(s, "recv_peer_record", c),
        rc |-> IF m.fault = "cb" THEN 0 - 1 ELSE 0]

\* handle_data_message: sequence frame, reply, then the handler of the data
\* message type; a handler that set the error state or returned non-zero makes
\* the function return -1
handle_data_message(s, c, m) ==
  LET h == IF m.dmt \in {"TABLE_BEGIN", "TABLE_END"} THEN handle_table(s, c, m, m.dmt)
           ELSE IF m.dmt = "PREFIX_RECORD" THEN handle_pfx_record(s, c, m)
           ELSE IF m.dmt = "PEER_RECORD" THEN handle_peer_record(s, c, m)
           ELSE [s |-> bgpwatcher_err_set_err(s), rc |-> 0 - 1]
  IN IF m.fault = "seq" THEN [s |-> bgpwatcher_err_set_err(s), rc |-> 0 - 1]
     ELSE IF m.fault = "send" THEN [s |-> bgpwatcher_err_set_err(s), rc |-> 0 - 1]
     ELSE IF h.s.err THEN [s |-> h.s, rc |-> 0 - 1]
     ELSE h

\* handle_ready_message
handle_ready_message(s, c, m) ==
  IF m.fault = "payload" THEN [s |-> bgpwatcher_err_set_err(s), rc |-> 0 - 1]
  ELSE [s |-> DO_CALLBACK(s, "client_connect", c),
        rc |-> IF m.fault = "cb" THEN 0 - 1 ELSE 0]

\* handle_message
handle_message(s, c, m) ==
  IF m.type = "DATA"
  THEN IF m.fault = "seq" THEN [s |-> bgpwatcher_err_set_err(s), rc |-> 0 - 1]
       ELSE LET h == handle_data_message(s, c, m)
            IN [s |-> h.s, rc |-> IF h.rc # 0 THEN 0 - 1 ELSE 0]
  ELSE IF m.type = "HEARTBEAT" THEN [s |-> s, rc |-> 0]
  ELSE IF m.type = "READY" THEN handle_ready_message(s, c, m)
  ELSE IF m.type = "TERM"
  THEN IF m.fault = "cb"
       THEN [s |-> DO_CALLBACK(s, "client_disconnect", c), rc |-> 0 - 1]
       ELSE [s |-> clients_remove(DO_CALLBACK(s, "client_disconnect", c), c), rc |-> 0]
  ELSE [s |-> bgpwatcher_err_set_err(s), rc |-> 0 - 1]

\* the part of run_server that receives one message m and handles it
ReceiveMessage(s, m, now) ==
  LET c == m.identity
      got == client_get(s, c, now)
  IN IF got.clients[c].present THEN handle_message(got, c, m)
     ELSE IF m.type = "READY" THEN handle_message(client_init(s, c, now), c, m)
     ELSE [s |-> bgpwatcher_err_set_err(s), rc |-> 0 - 1]

\* the heartbeat part of run_server and the purge it ends with
HeartbeatsAndPurge(s, in, now) ==
  IF now >= s.heartbeat_next
  THEN IF in.msg.fault = "hb" /\ (\E c \in ClientIds : s.clients[c].present)
       THEN [s |-> bgpwatcher_err_set_err(s), rc |-> 0 - 1]
       ELSE clients_purge([s EXCEPT !.heartbeat_next = now + HeartbeatInterval],
                          now, {in.msg.purge_fail})
  ELSE clients_purge(s, now, {in.msg.purge_fail})

\* one iteration of run_server at time now: the poll returns "interrupt",
\* "none" or "message"; the result is the server with the value returned
run_server(s, in, now) ==
  LET fresh == [s EXCEPT !.calls = <<>>]
      recv == IF in.poll = "message" THEN ReceiveMessage(fresh, in.msg, now)
              ELSE [s |-> fresh, rc |-> 0]
      done == IF in.poll = "interrupt"
              THEN [s |-> bgpwatcher_err_set_err(fresh), rc |-> 0 - 1]
              ELSE IF recv.rc # 0 THEN recv
              ELSE HeartbeatsAndPurge(recv.s, in, now)
  IN [done.s EXCEPT !.rc = done.rc]

\* What can go wrong in one iteration of run_server: a missing or malformed
\* sequence frame, a payload that does not deserialize, a reply or a heartbeat
\* that cannot be sent, a failing callback of the message handler
Faults == {"none", "seq", "payload", "send", "cb", "hb"}

\* the faults an iteration can meet, with no failing disconnect callback in
\* the purge (purge_fail 0)
Failures(faults) == [fault : faults, purge_fail : {0}]

\* a fault-free iteration in which the disconnect callback of one dead client
\* fails
PurgeFailures == [fault : {"none"}, purge_fail : ClientIds]

\* the frames of a message: who sent it, its type, the data message type and
\* the table type of a data message, and what goes wrong while it is handled
TableMessages ==
  {[identity |-> c, type |-> "DATA", dmt |-> d, table_type |-> tt,
    fault |-> f.fault, purge_fail |-> f.purge_fail] :
     c \in ClientIds, d \in {"TABLE_BEGIN", "TABLE_END"},
     tt \in {"PREFIX", "PEER", "UNKNOWN"}, f \in Failures(Faults)}

RecordMessages ==
  {[identity |-> c, type |-> "DATA", dmt |-> d, table_type |-> "UNKNOWN",
    fault |-> f.fault, purge_fail |-> f.purge_fail] :
     c \in ClientIds, d \in {"PREFIX_RECORD", "PEER_RECORD", "UNKNOWN"},
     f \in Failures(Faults)}

ControlMessages ==
  {[identity |-> c, type |-> ty, dmt |-> "UNKNOWN", table_type |-> "UNKNOWN",
    fault |-> f.fault, purge_fail |-> f.purge_fail] :
     c \in ClientIds, ty \in {"HEARTBEAT", "READY", "TERM", "UNKNOWN"},
     f \in Failures({"none", "payload", "cb", "hb"})}
    \cup {[identity |-> c, type |-> "HEARTBEAT", dmt |-> "UNKNOWN",
           table_type |-> "UNKNOWN", fault |-> f.fault, purge_fail |-> f.purge_fail] :
            c \in ClientIds, f \in PurgeFailures}

Messages == TableMessages \cup RecordMessages \cup ControlMessages

\* an iteration without a message
NoMessages ==
  {[identity |-> 0, type |-> "UNKNOWN", dmt |-> "UNKNOWN", table_type |-> "UNKNOWN",
    fault |-> f.fault, purge_fail |-> f.purge_fail] :
     f \in Failures({"none", "hb"}) \cup PurgeFailures}

\* what one iteration of run_server meets: the outcome of the poll and the
\* message, if there is one
ServerInputs ==
  [poll : {"message"}, msg : Messages]
    \cup [poll : {"none", "interrupt"}, msg : NoMessages]

(* ------------------------------------------------------------------ *)
(* broker data source                                                  *)
(* ------------------------------------------------------------------ *)

URL_BUFLEN == 4096

MAX_WAIT_TIME == 900

\* the failed attempts of one call of update_input_queue
MaxAttempts == 11

\* str repeated n times
RECURSIVE Repeat(_, _)
Repeat(str, n) ==
  IF n = 0 THEN ""
  ELSE IF n % 2 = 1 THEN str \o Repeat(str, n - 1)
  ELSE LET half == Repeat(str, n \div 2) IN half \o half

\* the length of the path of the broker url: a url that leaves room in the
\* buffer for a few calls of update_input_queue
BrokerPathLen == 3880

\* the broker url the user configures
BrokerUrl == "http://broker.example.org/" \o Repeat("a", BrokerPathLen)

\* The query url is kept as the sequence of the strings appended to it; strlen
\* of the buffer is the sum of their lengths.
RECURSIVE strlen(_)
strlen(buf) == IF buf = <<>> THEN 0 ELSE Len(Head(buf)) + strlen(Tail(buf))

\* snprintf(buf, BUFLEN, "%" PRIu32, v)
Decimal(v) == ToString(v)

\* APPEND_STR: the string is appended when it fits with its terminator,
\* otherwise the function leaves through err
APPEND_STR(b, str) ==
  IF b.err \/ b.query_url_remaining < Len(str) + 1
  THEN [b EXCEPT !.err = TRUE]
  ELSE [b EXCEPT !.query_url_buf = Append(@, str),
                 !.query_url_remaining = @ - Len(str)]

\* AMPORQ
AMPORQ(b) ==
  IF b.err THEN b
  ELSE IF b.first_param # 0
  THEN LET a == APPEND_STR(b, "?")
       IN IF a.err THEN a ELSE [a EXCEPT !.first_param = 0]
  ELSE APPEND_STR(b, "&")

\* the loops of bgpstream_broker_datasource_create over a list of string
\* filters
RECURSIVE AppendFilters(_, _, _)
AppendFilters(b, key, sf) ==
  IF sf = <<>> THEN b
  ELSE AppendFilters(APPEND_STR(APPEND_STR(AMPORQ(b), key), Head(sf)), key, Tail(sf))

\* and over the time intervals
RECURSIVE AppendIntervals(_, _)
AppendIntervals(b, tif) ==
  IF tif = <<>> THEN b
  ELSE AppendIntervals(
         APPEND_STR(APPEND_STR(APPEND_STR(APPEND_STR(AMPORQ(b), "intervals[]="),
                                          Decimal(Head(tif).begin_time)), ","),
                    Decimal(Head(tif).end_time)),
         Tail(tif))

\* bgpstream_broker_datasource_create; query_url_end is the place in the
\* buffer where the common part of the url ends; rc is what the last call of
\* update_input_queue returned, query the url it requested and waits the
\* seconds it slept. The assert of line 533 compares the pointer with 0 and
\* fails where assertions are compiled in.
bgpstream_broker_datasource_create(filter_mgr, broker_url, asserts) ==
  LET zero == [filter_mgr |-> filter_mgr, query_url_buf |-> <<>>,
               query_url_remaining |-> URL_BUFLEN, query_url_end |-> 0,
               first_param |-> 1, last_response_time |-> 0,
               current_window_end |-> 0, err |-> FALSE, aborted |-> FALSE,
               rc |-> 0, query |-> <<>>, waits |-> <<>>]
      base == APPEND_STR(APPEND_STR(zero, broker_url), "/data")
      projects == AppendFilters(base, "projects[]=", filter_mgr.projects)
      collectors == AppendFilters(projects, "collectors[]=", filter_mgr.collectors)
      bgp_types == AppendFilters(collectors, "types[]=", filter_mgr.bgp_types)
      intervals == AppendIntervals(bgp_types, filter_mgr.time_intervals)
      done == [intervals EXCEPT !.query_url_end = Len(intervals.query_url_buf)]
  IN IF asserts THEN [done EXCEPT !.aborted = TRUE] ELSE done

\* the seconds slept before the attempts that follow failed ones: wait_time
\* starts at 1 and is doubled after a sleep while it is below MAX_WAIT_TIME
RECURSIVE RetryWaits(_, _)
RetryWaits(failures, wait_time) ==
  IF failures = 0 THEN <<>>
  ELSE <<wait_time>>
         \o RetryWaits(failures - 1,
                       IF wait_time < MAX_WAIT_TIME THEN wait_time * 2 ELSE wait_time)

\* bgpstream_broker_datasource_update_input_queue: the variable parameters are
\* appended, the request is repeated after resp.failures failed attempts, and
\* the last response is a result (time and window end are taken from it, the
\* buffer is cut at query_url_end) or a fatal error
bgpstream_broker_datasource_update_input_queue(b, resp) ==
  LET c0 == [b EXCEPT !.err = FALSE]
      since == IF c0.last_response_time > 0
               THEN APPEND_STR(APPEND_STR(AMPORQ(c0), "dataAddedSince="),
                               Decimal(c0.last_response_time))
               ELSE c0
      min == IF ~ since.err /\ since.current_window_end > 0
             THEN APPEND_STR(APPEND_STR(AMPORQ(since), "minInitialTime="),
                             Decimal(since.current_window_end))
             ELSE since
      asked == [min EXCEPT !.query = min.query_url_buf,
                           !.waits = RetryWaits(resp.failures, 1)]
      window == IF resp.window_end > asked.current_window_end
                THEN resp.window_end ELSE asked.current_window_end
  IN IF min.err THEN [min EXCEPT !.rc = 0 - 1, !.waits = <<>>, !.query = <<>>]
     ELSE IF resp.outcome = "fatal"
     THEN [asked EXCEPT !.rc = 0 - 1, !.err = TRUE]
     ELSE [asked EXCEPT !.rc = resp.num_results,
                        !.last_response_time = resp.time,
                        !.current_window_end = window,
                        !.query_url_buf = SubSeq(@, 1, asked.query_url_end)]

\* the filters of the filter manager
FilterMgrs ==
  {[projects |-> <<>>, collectors |-> <<>>, bgp_types |-> <<>>, time_intervals |-> <<>>],
   [projects |-> <<"ris">>, collectors |-> <<>>, bgp_types |-> <<>>,
    time_intervals |-> <<>>],
   [projects |-> <<"ris", "routeviews">>, collectors |-> <<"rrc00">>,
    bgp_types |-> <<"updates">>,
    time_intervals |-> <<[begin_time |-> 1400000000, end_time |-> 1400003600]>>]}

\* what the broker answers to one call: the failed attempts before the last
\* response, and the last response
Responses ==
  [failures : 0..MaxAttempts, outcome : {"ok"}, time : {1400000100},
   window_end : {0, 1400003600}, num_results : {0, 1}]
    \cup [failures : {0}, outcome : {"fatal"}, time : {0}, window_end : {0},
          num_results : {0}]

(* ------------------------------------------------------------------ *)
(* filter string parser                                                *)
(* ------------------------------------------------------------------ *)

\* the tokens of one filter string
MaxTokens == 5

\* A string is the sequence of its pieces: the quote character and words
\* without quote and without space. A token of strtok_r is a non-empty string;
\* the empty sequence stands for the NULL pointer, as no value is ever the
\* empty string.
QUOTE == "\""

NULL == <<>>

\* strcmp(token, word) == 0
strcmp(tok, word) == IF tok = <<word>> THEN 0 ELSE 1

\* strchr(value, '"'): the place of the first quote, 0 when there is none
strchr(value) ==
  IF \E i \in 1..Len(value) : value[i] = QUOTE
  THEN CHOOSE i \in 1..Len(value) :
         value[i] = QUOTE /\ \A j \in 1..(i - 1) : value[j] # QUOTE
  ELSE 0

\* the parser after the declarations of bgpstream_parse_filter_string: the
\* state, the filter item, the value to return, whether the function has
\* returned; tokens are the tokens read so far, calls the calls of
\* instantiate_filter with the state they were made in, filters the filters
\* added to the stream
ParserStart ==
  [state |-> "TERM", filteritem |-> [termtype |-> "NONE", value |-> NULL],
   ret |-> 1, done |-> FALSE, tokens |-> <<>>, calls |-> <<>>, filters |-> <<>>]

\* the term types instantiate_filter adds a filter for
InstantiatedTypes ==
  {"RECORD_TYPE", "ELEM_PREFIX_MORE", "ELEM_PREFIX_LESS", "ELEM_PREFIX_ANY",
   "ELEM_PREFIX_EXACT", "ELEM_COMMUNITY", "ELEM_PEER_ASN", "PROJECT", "COLLECTOR",
   "ROUTER", "ELEM_ASPATH", "ELEM_IP_VERSION", "ELEM_TYPE"}

\* instantiate_filter
instantiate_filter(ps) ==
  LET item == ps.filteritem
      called == [ps EXCEPT !.calls = Append(@, [state |-> ps.state,
                                                termtype |-> item.termtype,
                                                value |-> item.value])]
  IN IF item.termtype \in InstantiatedTypes
     THEN [called EXCEPT !.filters = Append(@, [type |-> item.termtype,
                                                value |-> item.value])]
     ELSE called

\* the term type of a term keyword, "NONE" for any other token
TermType(term) ==
  IF strcmp(term, "project") = 0 \/ strcmp(term, "proj") = 0 THEN "PROJECT"
  ELSE IF strcmp(term, "collector") = 0 \/ strcmp(term, "coll") = 0 THEN "COLLECTOR"
  ELSE IF strcmp(term, "router") = 0 \/ strcmp(term, "rout") = 0 THEN "ROUTER"
  ELSE IF strcmp(term, "type") = 0 THEN "RECORD_TYPE"
  ELSE IF strcmp(term, "peer") = 0 THEN "ELEM_PEER_ASN"
  ELSE IF strcmp(term, "prefix") = 0 \/ strcmp(term, "pref") = 0 THEN "ELEM_PREFIX_MORE"
  ELSE IF strcmp(term, "community") = 0 \/ strcmp(term, "comm") = 0
  THEN "ELEM_COMMUNITY"
  ELSE IF strcmp(term, "aspath") = 0 \/ strcmp(term, "path") = 0 THEN "ELEM_ASPATH"
  ELSE IF strcmp(term, "extcommunity") = 0 \/ strcmp(term, "extc") = 0
  THEN "ELEM_EXTENDED_COMMUNITY"
  ELSE IF strcmp(term, "ipversion") = 0 \/ strcmp(term, "ipv") = 0
  THEN "ELEM_IP_VERSION"
  ELSE IF strcmp(term, "elemtype") = 0 THEN "ELEM_TYPE"
  ELSE "NONE"

\* bgpstream_parse_filter_term
bgpstream_parse_filter_term(term, ps) ==
  IF TermType(term) = "NONE" THEN [ps EXCEPT !.state = "FAIL"]
  ELSE [ps EXCEPT !.filteritem.termtype = TermType(term),
                  !.state = IF TermType(term) = "ELEM_PREFIX_MORE"
                            THEN "PREFIXEXT" ELSE "VALUE"]

\* bgpstream_parse_quotedvalue
bgpstream_parse_quotedvalue(value, ps) ==
  LET endquote == strchr(value)
      cut == IF endquote # 0 THEN SubSeq(value, 1, endquote - 1) ELSE value
      st == IF endquote # 0 THEN [ps EXCEPT !.state = "ENDVALUE"] ELSE ps
  IN IF cut = <<>> THEN st
     ELSE IF ps.filteritem.value = NULL
     THEN [st EXCEPT !.filteritem.value = cut]
     ELSE [st EXCEPT !.filteritem.value = @ \o <<" ">> \o cut]

\* bgpstream_parse_value
bgpstream_parse_value(value, ps) ==
  IF Head(value) = QUOTE
  THEN bgpstream_parse_quotedvalue(Tail(value), [ps EXCEPT !.state = "QUOTEDVALUE"])
  ELSE [ps EXCEPT !.filteritem.value = value, !.state = "ENDVALUE"]

\* the term type of a prefix extension keyword, "NONE" for any other token
PrefixExtType(ext) ==
  IF strcmp(ext, "any") = 0 THEN "ELEM_PREFIX_ANY"
  ELSE IF strcmp(ext, "more") = 0 THEN "ELEM_PREFIX_MORE"
  ELSE IF strcmp(ext, "less") = 0 THEN "ELEM_PREFIX_LESS"
  ELSE IF strcmp(ext, "exact") = 0 THEN "ELEM_PREFIX_EXACT"
  ELSE "NONE"

\* bgpstream_parse_prefixext
bgpstream_parse_prefixext(ext, ps) ==
  IF PrefixExtType(ext) # "NONE"
  THEN [ps EXCEPT !.filteritem.termtype = PrefixExtType(ext), !.state = "VALUE"]
  ELSE bgpstream_parse_value(ext, ps)

\* bgpstream_parse_endvalue
bgpstream_parse_endvalue(conj, ps) ==
  IF strcmp(conj, "and") = 0
  THEN [ps EXCEPT !.state = "TERM",
                  !.filteritem = [termtype |-> "NONE", value |-> NULL]]
  ELSE [ps EXCEPT !.state = "FAIL", !.filteritem.value = NULL]

\* endparsing after a FAIL: ret = 0 and the function returns
Endparsing(ps) ==
  IF ps.state = "FAIL" THEN [ps EXCEPT !.ret = 0, !.done = TRUE] ELSE ps

\* one turn of the loop of bgpstream_parse_filter_string with token tok
ParseStep(ps, tok) ==
  LET read == [ps EXCEPT !.tokens = Append(@, tok)]
  IN IF ps.state = "TERM" THEN Endparsing(bgpstream_parse_filter_term(tok, read))
     ELSE IF ps.state = "PREFIXEXT"
     THEN LET q == bgpstream_parse_prefixext(tok, read)
          IN IF q.state = "ENDVALUE" THEN instantiate_filter(q) ELSE Endparsing(q)
     ELSE IF ps.state = "VALUE"
     THEN instantiate_filter(bgpstream_parse_value(tok, read))
     ELSE IF ps.state = "QUOTEDVALUE"
     THEN LET q == bgpstream_parse_quotedvalue(tok, read)
          IN IF q.state = "ENDVALUE" THEN instantiate_filter(q) ELSE q
     ELSE IF ps.state = "ENDVALUE"
     THEN Endparsing(bgpstream_parse_endvalue(tok, read))
     ELSE [read EXCEPT !.ret = 0, !.done = TRUE]

\* bgpstream_parse_filter_string on the tokens of a string
RECURSIVE ParseTokens(_, _)
ParseTokens(ps, toks) ==
  IF ps.done THEN ps
  ELSE IF toks = <<>> THEN [ps EXCEPT !.done = TRUE]
  ELSE ParseTokens(ParseStep(ps, Head(toks)), Tail(toks))

bgpstream_parse_filter_string(toks) == ParseTokens(ParserStart, toks)

\* the tokens a filter string is made of: term keywords, a keyword that is no
\* term, a prefix extension, conjunctions, and values without quote, within
\* quotes, with an opening quote, with a closing quote
FilterTokens ==
  {<<"project">>, <<"prefix">>, <<"extcommunity">>, <<"origin">>,
   <<"more">>, <<"and">>, <<"or">>,
   <<"ris">>, <<QUOTE, "ris", QUOTE>>, <<QUOTE, "ris">>, <<"rrc00", QUOTE>>,
   <<QUOTE>>}

(* ------------------------------------------------------------------ *)
(* State machine                                                       *)
(* ------------------------------------------------------------------ *)

VARIABLES peers, cells, colls, failed, trie, server, clock, broker, parser

vars == <<peers, cells, colls, failed, trie, server, clock, broker, parser>>

\* the variables of the routing tables engine, of the prefix tree and of the
\* bgpwatcher server
engineVars == <<peers, cells, colls, failed>>

trieVars == <<trie>>

serverVars == <<server, clock>>

brokerVars == <<broker>>

parserVars == <<parser>>

\* the engine as one value, as the functions above take it
Engine == [peers |-> peers, cells |-> cells, colls |-> colls, failed |-> failed]

\* routingtables_create: no collector, no peer, no cell
Init ==
  /\ peers = [id \in PeerIds |-> NoPeer]
  /\ cells = [k \in CellKeys |-> NoCell]
  /\ colls = [c \in Collectors |-> NoCollector]
  /\ failed = FALSE
  /\ trie = bgpstream_patricia_tree_create
  /\ clock = 0
  /\ server = bgpwatcher_server_init(0)
  /\ broker = bgpstream_broker_datasource_create(CHOOSE f \in FilterMgrs : f.projects = <<>>,
                                                  "http://broker.example.org", FALSE)
  /\ parser = ParserStart

\* A universe u bounds the records a specification draws: the collectors, the
\* peers, the prefixes, the record times and the RIB dump times.
PathsOf(id) ==
  { <<AsnSeg(PeerAsn(id)), AsnSeg(65001)>>,
    <<AsnSeg(PeerAsn(id)), SetSeg>>,
    <<AsnSeg(65000), AsnSeg(65001)>>,
    << >> }

\* the paths that pass the peer-path sanity test
GoodPathsOf(id) ==
  { <<AsnSeg(PeerAsn(id)), AsnSeg(65001)>>,
    <<AsnSeg(PeerAsn(id)), SetSeg>> }

NoPath == << >>

Elem(type, id, pfx, path, st) ==
  [type |-> type, peer |-> id, prefix |-> pfx, aspath |-> path, new_state |-> st]

UpdateElems(u, c) ==
  UNION { {Elem("ANNOUNCEMENT", id, x, path, "UNKNOWN") : x \in u.pfxs, path \in PathsOf(id)}
          \cup {Elem("WITHDRAWAL", id, x, NoPath, "UNKNOWN") : x \in u.pfxs}
          \cup {Elem("PEERSTATE", id, "10.0.0.0/24", NoPath, st) : st \in FsmStates}
          : id \in {i \in u.peers : PeerCollector(i) = c} }

RibElems(u, c) ==
  UNION { {Elem("RIB", id, x, path, "UNKNOWN") : x \in u.pfxs, path \in GoodPathsOf(id)}
          : id \in {i \in u.peers : PeerCollector(i) = c} }

Record(status, type, pos, dump, ts, c, elems) ==
  [status |-> status, dump_type |-> type, dump_pos |-> pos, dump_time |-> dump,
   record_time |-> ts, collector |-> c, elems |-> elems]

UpdateRecords(u) ==
  UNION { {Record("VALID_RECORD", "UPDATES", "MIDDLE", ts, ts, c, <<e>>) :
             ts \in u.times, e \in UpdateElems(u, c)} : c \in u.cs }

RibRecords(u) ==
  UNION { {Record("VALID_RECORD", "RIB", pos, dump, ts, c, es) :
             pos \in {"START", "MIDDLE", "END"}, dump \in u.dumps, ts \in u.times,
             es \in {<< >>} \cup {<<e>> : e \in RibElems(u, c)}} : c \in u.cs }

CorruptedRecords(u) ==
  {Record(st, "UPDATES", "MIDDLE", ts, ts, c, << >>) :
     st \in {"CORRUPTED_RECORD", "CORRUPTED_SOURCE"}, ts \in u.times, c \in u.cs}

EmptyRecords(u) ==
  {Record(st, "UPDATES", "MIDDLE", ts, ts, c, << >>) :
     st \in {"EMPTY_SOURCE", "FILTERED_SOURCE"}, ts \in u.times, c \in u.cs}

\* every record of universe u
AllRecords(u) ==
  UpdateRecords(u) \cup RibRecords(u) \cup CorruptedRecords(u) \cup EmptyRecords(u)

RECURSIVE SumOver(_, _)
SumOver(f, S) ==
  IF S = {} THEN 0
  ELSE LET x == CHOOSE y \in S : TRUE IN f[x] + SumOver(f, S \ {x})

\* the number of records counted so far, over all collectors
RecordsCounted(s) ==
  SumOver([c \in Collectors |-> s.colls[c].valid_record_cnt
                                 + s.colls[c].corrupted_record_cnt
                                 + s.colls[c].empty_record_cnt], Collectors)

WithinBounds(s) == RecordsCounted(s) <= MaxRecords

\* one call of routingtables_process_record
Process(record) ==
  /\ ~ failed
  /\ RecordsCounted(Engine) < MaxRecords
  /\ LET t == routingtables_process_record(Engine, record)
     IN /\ WithinBounds(t)
        /\ IF t.failed
           THEN failed' = TRUE /\ UNCHANGED <<peers, cells, colls>>
           ELSE /\ peers' = t.peers
                /\ cells' = t.cells
                /\ colls' = t.colls
                /\ failed' = FALSE
  /\ UNCHANGED <<trieVars, serverVars, brokerVars, parserVars>>

ProcessUpdates(u) == \E r \in UpdateRecords(u) : Process(r)

ProcessRib(u) == \E r \in RibRecords(u) : Process(r)

ProcessCorrupted(u) == \E r \in CorruptedRecords(u) : Process(r)

ProcessEmpty(u) == \E r \in EmptyRecords(u) : Process(r)

\* one collector, one peer, two prefixes; two record times more than a backlog
\* window and more than the inactivity timeout apart
FarU ==
  [cs |-> {"rrc00"}, peers |-> {1}, pfxs |-> Pfxs,
   times |-> {1000, 5000}, dumps |-> {1000}]

\* the same with two record times less than a backlog window apart
NearU == [FarU EXCEPT !.times = {1000, 1050}]

\* the same with record times inside the first minute, where the uint32_t
\* differences of end_of_valid_rib wrap
WrapU == [FarU EXCEPT !.times = {20, 30}]

\* two collectors, two peers on the first and one on the second, one prefix
TwoU ==
  [cs |-> Collectors, peers |-> PeerIds, pfxs |-> {"10.0.0.0/24"},
   times |-> {1000}, dumps |-> {1000}]

Next ==
  \/ ProcessUpdates(FarU)
  \/ ProcessRib(FarU)
  \/ ProcessCorrupted(FarU)
  \/ ProcessEmpty(FarU)

Spec == Init /\ [][Next]_vars

NextNear ==
  \/ ProcessUpdates(NearU)
  \/ ProcessRib(NearU)
  \/ ProcessCorrupted(NearU)
  \/ ProcessEmpty(NearU)

SpecNear == Init /\ [][NextNear]_vars

NextWrap ==
  \/ ProcessUpdates(WrapU)
  \/ ProcessRib(WrapU)
  \/ ProcessCorrupted(WrapU)
  \/ ProcessEmpty(WrapU)

SpecWrap == Init /\ [][NextWrap]_vars

NextTwo ==
  \/ ProcessUpdates(TwoU)
  \/ ProcessRib(TwoU)
  \/ ProcessCorrupted(TwoU)
  \/ ProcessEmpty(TwoU)

SpecTwo == Init /\ [][NextTwo]_vars

\* paths whose origin segment carries AS 0 or an AS number of the reserved band
ForgedPathsOf(id) ==
  { <<AsnSeg(PeerAsn(id)), AsnSeg(0)>>,
    <<AsnSeg(PeerAsn(id)), AsnSeg(ROUTINGTABLES_LOCAL_ORIGIN_ASN)>>,
    <<AsnSeg(PeerAsn(id)), AsnSeg(ROUTINGTABLES_DOWN_ORIGIN_ASN)>> }

\* the announcement records of universe u with such a path
ForgedRecords(u) ==
  UNION { UNION { {Record("VALID_RECORD", "UPDATES", "MIDDLE", ts, ts, c,
                          <<Elem("ANNOUNCEMENT", id, x, path, "UNKNOWN")>>) :
                     ts \in u.times, x \in u.pfxs, path \in ForgedPathsOf(id)}
                  : id \in {i \in u.peers : PeerCollector(i) = c} }
          : c \in u.cs }

ProcessForged(u) == \E r \in ForgedRecords(u) : Process(r)

\* one collector, one peer, one prefix
ForgedU == [FarU EXCEPT !.pfxs = {"10.0.0.0/24"}]

NextForged ==
  \/ ProcessUpdates(ForgedU)
  \/ ProcessForged(ForgedU)
  \/ ProcessRib(ForgedU)

SpecForged == Init /\ [][NextForged]_vars

\* the node counters stay within the cap
TrieWithinBounds(pt) ==
  /\ pt.ipv4_active_nodes \in (0 - MaxActiveNodes)..MaxActiveNodes
  /\ pt.ipv6_active_nodes \in (0 - MaxActiveNodes)..MaxActiveNodes

\* one call of bgpstream_patricia_tree_insert
TrieInsert ==
  \E pfx \in TriePfxs :
    LET t == bgpstream_patricia_tree_insert(trie, pfx).pt
    IN /\ ~ trie.failed
       /\ TrieWithinBounds(t)
       /\ trie' = t
       /\ UNCHANGED <<engineVars, serverVars, brokerVars, parserVars>>

\* one call of bgpstream_patricia_tree_remove
TrieRemove ==
  \E pfx \in TriePfxs :
    LET t == bgpstream_patricia_tree_remove(trie, pfx)
    IN /\ ~ trie.failed
       /\ TrieWithinBounds(t)
       /\ trie' = t
       /\ UNCHANGED <<engineVars, serverVars, brokerVars, parserVars>>

NextTrie == TrieInsert \/ TrieRemove

SpecTrie == Init /\ [][NextTrie]_vars

(* ------------------------------------------------------------------ *)
(* Properties                                                          *)
(* ------------------------------------------------------------------ *)

ValidPeers == {id \in PeerIds : peers[id] # NoPeer}

ValidCells == {k \in CellKeys : cells[k] # NoCell}

KnownCollectors == {c \in Collectors : colls[c] # NoCollector}

\* C1: after every processed record, a peer of the view is Active exactly
\* when its FSM state is ESTABLISHED (invariant I1).
C1_ActiveIffEstablished ==
  \A id \in ValidPeers :
    (peers[id].state = "ACTIVE") <=> (peers[id].user.bgp_fsm_state = "ESTABLISHED")

\* a peer that a record activated, with a route of its own
C1_Witness ==
  \E k \in ValidCells :
    /\ cells[k].state = "ACTIVE"
    /\ peers[k[2]].state = "ACTIVE"
    /\ peers[k[2]].user.bgp_fsm_state = "ESTABLISHED"
    /\ peers[k[2]].user.bgp_time_ref_rib_start # 0

\* C2: after every processed record, an Active cell belongs to an Active peer
\* (invariant I2); a corrupted record that spares the newer cells of a peer it
\* deactivates breaks it.
C2_ActiveCellHasActivePeer ==
  \A k \in ValidCells :
    cells[k].state = "ACTIVE" => peers[k[2]].state = "ACTIVE"

\* the peer has had announcements or withdrawals
HadUpdates(id) ==
  peers[id].user.pfx_announcements_cnt + peers[id].user.pfx_withdrawals_cnt > 0

NoCorruptedRecord(id) ==
  \A c \in KnownCollectors :
    id \in colls[c].collector_peerids => colls[c].corrupted_record_cnt = 0

C4_NoUcDataWithoutUcDump ==
  \A c \in KnownCollectors :
    colls[c].bgp_time_uc_rib_dump_time = 0 =>
      /\ \A id \in colls[c].collector_peerids :
           /\ peers[id].user.bgp_time_uc_rib_start = 0
           /\ peers[id].user.bgp_time_uc_rib_end = 0
      /\ \A k \in ValidCells :
           k[2] \in colls[c].collector_peerids =>
             /\ cells[k].user.bgp_time_uc_delta_ts = 0
             /\ cells[k].user.uc_origin_asn = ROUTINGTABLES_DOWN_ORIGIN_ASN

\* a RIB dump has ended and its rows were promoted
C4_Witness ==
  \E c \in KnownCollectors :
    /\ colls[c].bgp_time_uc_rib_dump_time = 0
    /\ colls[c].bgp_time_ref_rib_dump_time # 0
    /\ \E k \in ValidCells :
         /\ k[2] \in colls[c].collector_peerids
         /\ cells[k].state = "ACTIVE"
         /\ peers[k[2]].user.bgp_time_ref_rib_start # 0
         /\ cells[k].user.announcements = 0

\* the state invariant I5 gives collector c from the peers it owns
CollectorStateOf(c) ==
  LET ids == colls[c].collector_peerids
  IN IF \E id \in ids : peers[id].state = "ACTIVE" THEN "UP"
     ELSE IF \E id \in ids : peers[id].user.bgp_fsm_state # "UNKNOWN" THEN "DOWN"
     ELSE "UNKNOWN"

\* C5: after every processed record a collector is UP exactly when one of its
\* peers is Active, DOWN exactly when none is Active and one has an FSM state
\* other than UNKNOWN, and UNKNOWN otherwise; a record of another collector
\* changes neither the collector's state nor its peers.
C5_CollectorState ==
  /\ \A c \in KnownCollectors : colls[c].state = CollectorStateOf(c)
  /\ \A r \in AllRecords(TwoU) :
       \A c \in KnownCollectors \ {r.collector} :
         LET t == routingtables_process_record(Engine, r)
         IN /\ t.colls[c] = colls[c]
            /\ \A id \in colls[c].collector_peerids : t.peers[id] = peers[id]

\* one collector is UP while the other, whose only peer went down, is DOWN
C5_Witness ==
  /\ colls["rrc00"].state = "UP"
  /\ colls["route-views2"].state = "DOWN"
  /\ \E id \in colls["route-views2"].collector_peerids :
       peers[id].user.bgp_fsm_state = "IDLE"

\* the record carries one announcement or withdrawal that reaches
\* apply_prefix_update: it passes the peer-path sanity test and the record is
\* not discarded
AppliedPrefixUpdate(r) ==
  /\ r.elems[1].type \in {"ANNOUNCEMENT", "WITHDRAWAL"}
  /\ ~ SkipElem(r.elems[1])
  /\ ~ DiscardRecord(Engine, r.collector, r)

UcCollectors == {c \in KnownCollectors : colls[c].bgp_time_uc_rib_dump_time # 0}

\* C7: at RIB End, a cell of a peer that received RIB rows whose live last_ts
\* is greater than uc_rib_start - 60 (over the integers) keeps its live origin
\* and last_ts whatever the RIB row says, and if the live origin is a route
\* the cell and the peer end Active.  The uint32_t subtraction of
\* end_of_valid_rib breaks it when uc_rib_start < 60.
C7_BacklogKeepsLive ==
  \A c \in UcCollectors :
    LET t == end_of_valid_rib(Engine, c)
    IN \A k \in ValidCells :
         (/\ InRibScan(Engine, c, k)
          /\ cells[k].user.bgp_time_last_ts # 0
          /\ cells[k].user.bgp_time_last_ts
               > peers[k[2]].user.bgp_time_uc_rib_start - ROUTINGTABLES_RIB_BACKLOG_TIME)
         => /\ t.cells[k].orig_asn = cells[k].orig_asn
            /\ t.cells[k].user.bgp_time_last_ts = cells[k].user.bgp_time_last_ts
            /\ cells[k].orig_asn # ROUTINGTABLES_DOWN_ORIGIN_ASN
                 => /\ t.cells[k].state = "ACTIVE"
                    /\ t.peers[k[2]].state = "ACTIVE"

\* the backlog predicate of the RIB reconciler, over the integers: the RIB row
\* is newer than the live data and the live data is outside the backlog window
BacklogPredicate(k) ==
  /\ cells[k].user.bgp_time_uc_delta_ts + peers[k[2]].user.bgp_time_uc_rib_start
       > cells[k].user.bgp_time_last_ts
  /\ ~ (cells[k].user.bgp_time_last_ts
          > peers[k[2]].user.bgp_time_uc_rib_start - ROUTINGTABLES_RIB_BACKLOG_TIME)

\* C8: at RIB End, for a cell of a peer with uc_rib_start # 0 for which the
\* backlog predicate holds: a RIB row (uc_origin_asn # DOWN) leaves the cell
\* Active with origin uc_origin_asn and last_ts = uc_delta_ts + uc_rib_start
\* and the peer Active/ESTABLISHED with ref_rib_* = uc_rib_*; no RIB row
\* (uc_origin_asn = DOWN) leaves the cell Inactive with last_ts = 0 and origin
\* DOWN; either way the UC fields of the cell are cleared.
C8_RibEndPromotes ==
  \A c \in UcCollectors :
    LET t == end_of_valid_rib(Engine, c)
    IN \A k \in ValidCells :
         (InRibScan(Engine, c, k) /\ BacklogPredicate(k))
         => LET pp == cells[k].user
                p  == peers[k[2]].user
                tc == t.cells[k]
                tp == t.peers[k[2]]
            IN /\ IF pp.uc_origin_asn # ROUTINGTABLES_DOWN_ORIGIN_ASN
                  THEN /\ tc.state = "ACTIVE"
                       /\ tc.orig_asn = pp.uc_origin_asn
                       /\ tc.user.bgp_time_last_ts
                            = pp.bgp_time_uc_delta_ts + p.bgp_time_uc_rib_start
                       /\ tp.state = "ACTIVE"
                       /\ tp.user.bgp_fsm_state = "ESTABLISHED"
                       /\ tp.user.bgp_time_ref_rib_start = p.bgp_time_uc_rib_start
                       /\ tp.user.bgp_time_ref_rib_end = p.bgp_time_uc_rib_end
                  ELSE /\ tc.state = "INACTIVE"
                       /\ tc.orig_asn = ROUTINGTABLES_DOWN_ORIGIN_ASN
                       /\ tc.user.bgp_time_last_ts = 0
               /\ tc.user.bgp_time_uc_delta_ts = 0
               /\ tc.user.uc_origin_asn = ROUTINGTABLES_DOWN_ORIGIN_ASN

\* a RIB under construction has a row for one prefix and none for a second
\* prefix that is live and Active; the End promotes the first and retires the
\* second
C8_Witness ==
  \E c \in UcCollectors :
    \E k1, k2 \in ValidCells :
      /\ InRibScan(Engine, c, k1) /\ BacklogPredicate(k1)
      /\ InRibScan(Engine, c, k2) /\ BacklogPredicate(k2)
      /\ cells[k1].user.uc_origin_asn # ROUTINGTABLES_DOWN_ORIGIN_ASN
      /\ cells[k2].user.uc_origin_asn = ROUTINGTABLES_DOWN_ORIGIN_ASN
      /\ cells[k2].state = "ACTIVE"
      /\ end_of_valid_rib(Engine, c).cells[k1].state = "ACTIVE"
      /\ end_of_valid_rib(Engine, c).cells[k2].state = "INACTIVE"

\* C9: when the first event ever seen for a peer is an announcement (fsm
\* UNKNOWN, no RIB under construction for it), after the record the peer is
\* Inactive with fsm UNKNOWN, the cell is Inactive with last_ts = 0 and origin
\* DOWN, and the announcement counters (the peer's pfx_announcements_cnt and
\* the cell's announcements) are what they were before.  The revert of
\* apply_prefix_update takes back the cell's counter only.
C9_FirstAnnouncementReverted ==
  \A r \in UpdateRecords(FarU) :
    LET e == r.elems[1]
        k == <<e.prefix, e.peer>>
        t == routingtables_process_record(Engine, r)
    IN (/\ AppliedPrefixUpdate(r)
        /\ e.type = "ANNOUNCEMENT"
        /\ peers[e.peer] = NoPeer)
       => /\ t.peers[e.peer].state = "INACTIVE"
          /\ t.peers[e.peer].user.bgp_fsm_state = "UNKNOWN"
          /\ t.cells[k].state = "INACTIVE"
          /\ t.cells[k].user.bgp_time_last_ts = 0
          /\ t.cells[k].orig_asn = ROUTINGTABLES_DOWN_ORIGIN_ASN
          /\ t.cells[k].user.announcements = cells[k].user.announcements
          /\ t.peers[e.peer].user.pfx_announcements_cnt
               = peers[e.peer].user.pfx_announcements_cnt

\* the record carries a peer-state message that takes its peer from
\* ESTABLISHED to another state
PeerDown(r) ==
  /\ r.elems[1].type = "PEERSTATE"
  /\ ~ DiscardRecord(Engine, r.collector, r)
  /\ peers[r.elems[1].peer] # NoPeer
  /\ peers[r.elems[1].peer].user.bgp_fsm_state = "ESTABLISHED"
  /\ r.elems[1].new_state # "ESTABLISHED"

\* C10: a peer-state message at ts that takes a peer from ESTABLISHED to
\* another state sets fsm to the new state and ref_rib_start = ref_rib_end =
\* ts, makes the peer Inactive and leaves each of its cells Inactive with
\* last_ts = 0 and origin DOWN; the UC window of the peer and the UC fields of
\* its cells are cleared when ts >= uc_rib_start and kept when
\* ts < uc_rib_start.
C10_PeerDown ==
  \A r \in UpdateRecords(FarU) :
    LET e  == r.elems[1]
        id == e.peer
        ts == r.record_time
        t  == routingtables_process_record(Engine, r)
        p  == peers[id].user
        tp == t.peers[id].user
    IN PeerDown(r)
       => /\ ~ t.failed
          /\ tp.bgp_fsm_state = e.new_state
          /\ tp.bgp_time_ref_rib_start = ts
          /\ tp.bgp_time_ref_rib_end = ts
          /\ t.peers[id].state = "INACTIVE"
          /\ \A k \in ValidCells :
               k[2] = id =>
                 /\ t.cells[k].state = "INACTIVE"
                 /\ t.cells[k].user.bgp_time_last_ts = 0
                 /\ t.cells[k].orig_asn = ROUTINGTABLES_DOWN_ORIGIN_ASN
          /\ IF ts >= p.bgp_time_uc_rib_start
             THEN /\ tp.bgp_time_uc_rib_start = 0
                  /\ tp.bgp_time_uc_rib_end = 0
                  /\ \A k \in ValidCells :
                       k[2] = id =>
                         /\ t.cells[k].user.bgp_time_uc_delta_ts = 0
                         /\ t.cells[k].user.uc_origin_asn = ROUTINGTABLES_DOWN_ORIGIN_ASN
             ELSE /\ tp.bgp_time_uc_rib_start = p.bgp_time_uc_rib_start
                  /\ tp.bgp_time_uc_rib_end = p.bgp_time_uc_rib_end
                  /\ \A k \in ValidCells :
                       k[2] = id =>
                         /\ t.cells[k].user.bgp_time_uc_delta_ts
                              = cells[k].user.bgp_time_uc_delta_ts
                         /\ t.cells[k].user.uc_origin_asn = cells[k].user.uc_origin_asn

\* an ESTABLISHED peer with an Active cell and a later RIB row for it goes
\* IDLE at a time before its first RIB row: the cell is wiped, the row is kept
C10_Witness ==
  \E r \in UpdateRecords(FarU) :
    LET id == r.elems[1].peer
        t  == routingtables_process_record(Engine, r)
    IN /\ PeerDown(r)
       /\ r.elems[1].new_state = "IDLE"
       /\ r.record_time < peers[id].user.bgp_time_uc_rib_start
       /\ \E k \in ValidCells :
            /\ k[2] = id
            /\ cells[k].state = "ACTIVE"
            /\ cells[k].user.uc_origin_asn # ROUTINGTABLES_DOWN_ORIGIN_ASN
            /\ t.cells[k].state = "INACTIVE"
            /\ t.cells[k].user.uc_origin_asn = cells[k].user.uc_origin_asn
            /\ t.peers[id].user.bgp_fsm_state = "IDLE"
            /\ t.peers[id].user.bgp_time_uc_rib_start # 0

\* the live part of a peer and of a cell
LivePeer(peer) ==
  <<peer.state, peer.user.bgp_fsm_state,
    peer.user.bgp_time_ref_rib_start, peer.user.bgp_time_ref_rib_end>>

LiveCell(cell) == <<cell.state, cell.orig_asn, cell.user.bgp_time_last_ts>>

\* the under-construction part of a peer and of a cell
UcPeer(peer) == <<peer.user.bgp_time_uc_rib_start, peer.user.bgp_time_uc_rib_end>>

UcCell(cell) == <<cell.user.bgp_time_uc_delta_ts, cell.user.uc_origin_asn>>

\* C11: a corrupted record at ts resets the live view of every peer of the
\* collector with ref_rib_start # 0 and ts >= ref_rib_start: the peer becomes
\* Inactive with fsm UNKNOWN and ref_rib_* = 0 and all of its cells are wiped
\* (last_ts = 0, origin DOWN, Inactive), also the cells with last_ts > ts; the
\* other peers keep their live state.  The cell loop of
\* collector_process_corrupted_message spares the cells with last_ts > ts.
C11_CorruptedResetsLive ==
  \A r \in CorruptedRecords(FarU) :
    LET c  == r.collector
        ts == r.record_time
        t  == routingtables_process_record(Engine, r)
    IN (c \in KnownCollectors /\ ~ DiscardRecord(Engine, c, r))
       => \A id \in colls[c].collector_peerids :
            IF /\ peers[id].user.bgp_time_ref_rib_start # 0
               /\ ts >= peers[id].user.bgp_time_ref_rib_start
            THEN /\ LivePeer(t.peers[id]) = <<"INACTIVE", "UNKNOWN", 0, 0>>
                 /\ \A k \in ValidCells :
                      k[2] = id =>
                        LiveCell(t.cells[k])
                          = <<"INACTIVE", ROUTINGTABLES_DOWN_ORIGIN_ASN, 0>>
            ELSE /\ LivePeer(t.peers[id]) = LivePeer(peers[id])
                 /\ \A k \in ValidCells :
                      k[2] = id => LiveCell(t.cells[k]) = LiveCell(cells[k])

\* what C12 says of corrupted record r, from the current state
CorruptedClearsUc(r) ==
  LET c  == r.collector
      ts == r.record_time
      t  == routingtables_process_record(Engine, r)
  IN /\ t.colls[c].corrupted_record_cnt = colls[c].corrupted_record_cnt + 1
     /\ \A id \in colls[c].collector_peerids :
          IF /\ peers[id].user.bgp_time_uc_rib_start # 0
             /\ ts >= peers[id].user.bgp_time_uc_rib_start
          THEN /\ UcPeer(t.peers[id]) = <<0, 0>>
               /\ \A k \in ValidCells :
                    k[2] = id =>
                      UcCell(t.cells[k]) = <<0, ROUTINGTABLES_DOWN_ORIGIN_ASN>>
          ELSE /\ UcPeer(t.peers[id]) = UcPeer(peers[id])
               /\ \A k \in ValidCells :
                    k[2] = id => UcCell(t.cells[k]) = UcCell(cells[k])

NoCounters(s) ==
  [peers |-> [id \in PeerIds |->
                [s.peers[id] EXCEPT !.user.pfx_announcements_cnt = 0,
                                    !.user.pfx_withdrawals_cnt = 0]],
   cells |-> [k \in CellKeys |->
                [s.cells[k] EXCEPT !.user.announcements = 0,
                                   !.user.withdrawals = 0]],
   colls |-> [c \in Collectors |->
                [s.colls[c] EXCEPT !.valid_record_cnt = 0,
                                   !.corrupted_record_cnt = 0,
                                   !.empty_record_cnt = 0]],
   failed |-> s.failed]

\* the records with one announcement or withdrawal
PrefixUpdateRecords(u) ==
  {r \in UpdateRecords(u) : r.elems[1].type \in {"ANNOUNCEMENT", "WITHDRAWAL"}}

\* C13 as stated: from any reachable state, the same announcement or
\* withdrawal record applied twice in a row yields the same engine state as
\* applied once.
C13_UpdateIdempotent ==
  \A r \in PrefixUpdateRecords(FarU) :
    LET t1 == routingtables_process_record(Engine, r)
        t2 == routingtables_process_record(t1, r)
    IN ~ t1.failed => t2 = t1

\* C13, amended: applied twice the record yields the state it yields applied
\* once except for the statistics counters (the collector's record counters,
\* the peer's pfx_announcements_cnt / pfx_withdrawals_cnt, the cell's
\* announcements / withdrawals), which count the record again.
C13_UpdateIdempotentButCounters ==
  \A r \in PrefixUpdateRecords(FarU) :
    LET t1 == routingtables_process_record(Engine, r)
        t2 == routingtables_process_record(t1, r)
    IN ~ t1.failed
       => /\ ~ t2.failed
          /\ NoCounters(t2) = NoCounters(t1)
          /\ (~ SkipElem(r.elems[1]) /\ ~ DiscardRecord(t1, r.collector, r))
               => /\ t2.colls[r.collector].valid_record_cnt
                       = t1.colls[r.collector].valid_record_cnt + 1
                  /\ t2.peers[r.elems[1].peer].user.pfx_announcements_cnt
                       + t2.peers[r.elems[1].peer].user.pfx_withdrawals_cnt
                       = t1.peers[r.elems[1].peer].user.pfx_announcements_cnt
                           + t1.peers[r.elems[1].peer].user.pfx_withdrawals_cnt + 1

\* an announcement brings up a peer that was down; repeated, it changes the
\* counters only
C13_Witness ==
  \E r \in PrefixUpdateRecords(FarU) :
    LET t1 == routingtables_process_record(Engine, r)
        t2 == routingtables_process_record(t1, r)
        id == r.elems[1].peer
    IN /\ r.elems[1].type = "ANNOUNCEMENT"
       /\ peers[id].user.bgp_fsm_state = "IDLE"
       /\ t1.peers[id].state = "ACTIVE"
       /\ t1.cells[<<r.elems[1].prefix, id>>].state = "ACTIVE"
       /\ NoCounters(t2) = NoCounters(t1)
       /\ t2 # t1

\* the RIB End scan promotes the under-construction data of cell k
RibPromotes(s, c, k) ==
  /\ InRibScan(s, c, k)
  /\ RibIsNewer(s.cells[k].user, s.peers[k[2]].user)
  /\ s.cells[k].user.uc_origin_asn # ROUTINGTABLES_DOWN_ORIGIN_ASN

\* the promotion of a RIB End never lowers the last_ts of the promoted cell
PromotionKeepsLastTs ==
  \A c \in KnownCollectors : \A k \in ValidCells :
    RibPromotes(Engine, c, k)
      => end_of_valid_rib(Engine, c).cells[k].user.bgp_time_last_ts
           >= cells[k].user.bgp_time_last_ts

\* C14 as stated: an announcement or withdrawal record never lowers the
\* last_ts of a cell, and neither does the promotion of a RIB End.
C14_LastTsMonotone ==
  /\ PromotionKeepsLastTs
  /\ \A r \in PrefixUpdateRecords(FarU) : \A k \in ValidCells :
       LET t == routingtables_process_record(Engine, r)
       IN ~ t.failed
            => t.cells[k].user.bgp_time_last_ts >= cells[k].user.bgp_time_last_ts

\* the record is an update that apply_prefix_update takes back on cell k: the
\* peer is Inactive with FSM state UNKNOWN and no RIB under construction (case 2)
RevertsCell(s, r, k) ==
  LET elem == r.elems[1]
  IN /\ k = <<elem.prefix, elem.peer>>
     /\ ~ SkipElem(elem)
     /\ ~ DiscardRecord(get_collector_data(s, r.collector), r.collector, r)
     /\ s.peers[elem.peer].state = "INACTIVE"
     /\ s.peers[elem.peer].user.bgp_fsm_state = "UNKNOWN"
     /\ s.peers[elem.peer].user.bgp_time_uc_rib_start = 0
     /\ r.record_time >= s.cells[k].user.bgp_time_last_ts

\* C14, amended: the promotion of a RIB End never lowers the last_ts of a cell,
\* and an announcement or withdrawal record never lowers it either unless the
\* update is taken back (case 2), which sets the last_ts of its cell to 0.
C14_LastTsMonotoneButRevert ==
  /\ PromotionKeepsLastTs
  /\ \A r \in PrefixUpdateRecords(FarU) : \A k \in ValidCells :
       LET t == routingtables_process_record(Engine, r)
       IN ~ t.failed
            => IF RevertsCell(Engine, r, k)
               THEN t.cells[k].user.bgp_time_last_ts = 0
               ELSE t.cells[k].user.bgp_time_last_ts
                      >= cells[k].user.bgp_time_last_ts

\* an announcement raises the last_ts of a cell that had one, a RIB End
\* promotes a cell to a later last_ts, or a taken-back update zeroes one
C14_Witness ==
  /\ \E r \in PrefixUpdateRecords(FarU) : \E k \in ValidCells :
       LET t == routingtables_process_record(Engine, r)
       IN /\ ~ t.failed
          /\ cells[k].user.bgp_time_last_ts # 0
          /\ \/ t.cells[k].user.bgp_time_last_ts > cells[k].user.bgp_time_last_ts
             \/ RevertsCell(Engine, r, k)
  /\ \E c \in KnownCollectors : \E k \in ValidCells :
       /\ RibPromotes(Engine, c, k)
       /\ cells[k].user.bgp_time_last_ts # 0

\* the RIB START records of universe u that carry no row
RibStartRecords(u) ==
  {r \in RibRecords(u) : r.dump_pos = "START" /\ r.elems = << >>}

\* state t has no under-construction data for collector c, and the cells of
\* the peers of c that are Active in state s have in t the live fields of s
StopUcDone(s, t, c) ==
  /\ \A id \in CollectorPeers(s, c) :
       s.peers[id] # NoPeer => UcPeer(t.peers[id]) = <<0, 0>>
  /\ \A k \in CellKeys :
       (s.cells[k] # NoCell /\ k[2] \in CollectorPeers(s, c))
         => /\ UcCell(t.cells[k]) = <<0, ROUTINGTABLES_DOWN_ORIGIN_ASN>>
            /\ s.peers[k[2]].state = "ACTIVE"
                 => LiveCell(t.cells[k]) = LiveCell(s.cells[k])
            /\ s.peers[k[2]].state = "INACTIVE"
                 => /\ t.cells[k].orig_asn = ROUTINGTABLES_DOWN_ORIGIN_ASN
                    /\ t.cells[k].user.bgp_time_last_ts = 0

C16_RibWindowsOrdered ==
  \A id \in ValidPeers :
    LET p == peers[id].user
    IN /\ (p.bgp_time_uc_rib_start # 0 /\ p.bgp_time_uc_rib_end # 0)
            => p.bgp_time_uc_rib_start <= p.bgp_time_uc_rib_end
       /\ (p.bgp_time_ref_rib_start # 0 /\ p.bgp_time_ref_rib_end # 0)
            => p.bgp_time_ref_rib_start <= p.bgp_time_ref_rib_end

\* the update records of universe u with two elements
TwoElemRecords(u) ==
  { [r EXCEPT !.elems = @ \o <<e>>] :
      r \in UpdateRecords(u), e \in UpdateElems(u, "rrc00") }

\* C17: when processing a record fails at its k-th element, the engine state
\* is the state before the record.
C17_FailureLeavesState ==
  \A r \in TwoElemRecords(FarU) : \A k \in {1, 2} :
    ReachesAddPeer(Engine, r, k)
      => routingtables_process_record_failing(Engine, r, k) = Engine

\* the values of the reserved band that stand for no AS
ReservedOrigins ==
  {ROUTINGTABLES_LOCAL_ORIGIN_ASN, ROUTINGTABLES_CONFSET_ORIGIN_ASN,
   ROUTINGTABLES_DOWN_ORIGIN_ASN}

\* no Active cell has origin DOWN
ActiveCellNotDown ==
  \A k \in ValidCells :
    cells[k].state = "ACTIVE" => cells[k].orig_asn # ROUTINGTABLES_DOWN_ORIGIN_ASN

\* C18: get_origin_asn returns the AS number of a single-AS origin segment
\* unchanged and never a reserved value, it returns ORIGIN_SET_OR_CONFED for a
\* set or confederation, and a cell that an announcement made Active never has
\* origin DOWN.
C18_OriginNeverReserved ==
  /\ ActiveCellNotDown
  /\ \A r \in ForgedRecords(ForgedU) \cup PrefixUpdateRecords(ForgedU) :
       LET path == r.elems[1].aspath
       IN Len(path) > 0
            => IF path[Len(path)].type = "ASN"
               THEN /\ get_origin_asn(path) = path[Len(path)].asn
                    /\ get_origin_asn(path) \notin ReservedOrigins
               ELSE get_origin_asn(path) = ROUTINGTABLES_CONFSET_ORIGIN_ASN

\* the prefixes that search_exact finds in the trie
PrefixSet(pt) ==
  {pfx \in TriePfxs : bgpstream_patricia_tree_search_exact(pt, pfx) # 0}

\* C19: inserting a prefix that is present returns the node that search_exact
\* finds for it and changes nothing in the trie (no node, same prefixes, same
\* counters); the node an insertion returns is the node search_exact finds
\* afterwards; and the node of a present prefix stays the node search_exact
\* finds for it across every insertion and removal of another prefix.
C19_InsertIdempotentNodeStable ==
  /\ \A pfx \in PrefixSet(trie) :
       LET again == bgpstream_patricia_tree_insert(trie, pfx)
       IN /\ again.node = bgpstream_patricia_tree_search_exact(trie, pfx)
          /\ again.pt = trie
  /\ \A pfx \in TriePfxs :
       LET first == bgpstream_patricia_tree_insert(trie, pfx)
       IN ~ first.pt.failed
            => /\ first.node # 0
               /\ first.node = bgpstream_patricia_tree_search_exact(first.pt, pfx)
               /\ first.pt.nodes[first.node].prefix = pfx
  /\ \A pfx \in PrefixSet(trie) : \A other \in TriePfxs \ {pfx} :
       LET node == bgpstream_patricia_tree_search_exact(trie, pfx)
           ins == bgpstream_patricia_tree_insert(trie, other).pt
           rem == bgpstream_patricia_tree_remove(trie, other)
       IN /\ ~ ins.failed
               => /\ bgpstream_patricia_tree_search_exact(ins, pfx) = node
                  /\ ins.nodes[node].prefix = pfx
          /\ ~ rem.failed
               => /\ bgpstream_patricia_tree_search_exact(rem, pfx) = node
                  /\ rem.nodes[node].prefix = pfx

\* the node of a present prefix gets a new parent by the insertion of another
\* prefix and loses its parent by the removal of a third one, and stays the
\* node search_exact finds
C19_Witness ==
  \E pfx \in PrefixSet(trie) : \E other \in TriePfxs \ {pfx} :
    \E third \in PrefixSet(trie) \ {pfx} :
      LET node == bgpstream_patricia_tree_search_exact(trie, pfx)
          ins == bgpstream_patricia_tree_insert(trie, other).pt
          rem == bgpstream_patricia_tree_remove(trie, third)
      IN /\ ~ ins.failed /\ ~ rem.failed
         /\ ins.nodes[node].parent # trie.nodes[node].parent
         /\ rem.nodes[node].parent # trie.nodes[node].parent
         /\ bgpstream_patricia_tree_search_exact(ins, pfx) = node
         /\ bgpstream_patricia_tree_search_exact(rem, pfx) = node
         /\ bgpstream_patricia_tree_insert(trie, pfx).pt = trie

\* C20: after any sequence of insertions and removals search_exact finds the
\* prefixes inserted and not removed since: every insertion of pfx completes
\* and adds pfx to the prefixes found, every removal of pfx completes and takes
\* pfx away from them, and nothing else changes among them.
C20_SearchExactFindsInserted ==
  /\ ~ trie.failed
  /\ PrefixSet(bgpstream_patricia_tree_create) = {}
  /\ \A pfx \in TriePfxs :
       LET ins == bgpstream_patricia_tree_insert(trie, pfx).pt
           rem == bgpstream_patricia_tree_remove(trie, pfx)
       IN /\ ~ ins.failed /\ PrefixSet(ins) = PrefixSet(trie) \cup {pfx}
          /\ ~ rem.failed /\ PrefixSet(rem) = PrefixSet(trie) \ {pfx}

\* the same for the calls that complete
SearchExactFindsInsertedIfCompleted ==
  \A pfx \in TriePfxs :
    LET ins == bgpstream_patricia_tree_insert(trie, pfx).pt
        rem == bgpstream_patricia_tree_remove(trie, pfx)
    IN /\ ~ ins.failed => PrefixSet(ins) = PrefixSet(trie) \cup {pfx}
       /\ ~ rem.failed => PrefixSet(rem) = PrefixSet(trie) \ {pfx}

\* the announce and withdraw counters of a cell
CellCounters(cell) == <<cell.user.announcements, cell.user.withdrawals>>

\* C21: an announcement or withdrawal older than the last_ts of its cell leaves
\* the last_ts, origin, Active flag and counters of the cell and the view
\* state, FSM state and reference window of the peer unchanged.
C21_OutOfOrderSuppressed ==
  \A r \in PrefixUpdateRecords(NearU) :
    LET id == r.elems[1].peer
        k == <<r.elems[1].prefix, id>>
        t == routingtables_process_record(Engine, r)
    IN (/\ ~ failed
        /\ cells[k] # NoCell
        /\ ~ SkipElem(r.elems[1])
        /\ ~ DiscardRecord(Engine, r.collector, r)
        /\ r.record_time < cells[k].user.bgp_time_last_ts)
         => /\ ~ t.failed
            /\ LiveCell(t.cells[k]) = LiveCell(cells[k])
            /\ CellCounters(t.cells[k]) = CellCounters(cells[k])
            /\ LivePeer(t.peers[id]) = LivePeer(peers[id])

\* an old withdrawal reaches an Active cell, or an old announcement a withdrawn
\* one, and the cell stays as it was
C21_Witness ==
  \E r \in PrefixUpdateRecords(NearU) :
    LET id == r.elems[1].peer
        k == <<r.elems[1].prefix, id>>
        t == routingtables_process_record(Engine, r)
    IN /\ cells[k] # NoCell
       /\ ~ SkipElem(r.elems[1])
       /\ ~ DiscardRecord(Engine, r.collector, r)
       /\ r.record_time < cells[k].user.bgp_time_last_ts
       /\ peers[id].state = "ACTIVE"
       /\ (cells[k].state = "ACTIVE") = (r.elems[1].type = "WITHDRAWAL")
       /\ t.cells[k] = cells[k]

\* the peer of a single-element update record is Inactive with a known FSM
\* state, and the update is not older than its cell
DownPeerUpdate(s, r) ==
  LET id == r.elems[1].peer
      k == <<r.elems[1].prefix, id>>
  IN /\ ~ s.failed
     /\ ~ SkipElem(r.elems[1])
     /\ ~ DiscardRecord(s, r.collector, r)
     /\ s.peers[id].state = "INACTIVE"
     /\ s.peers[id].user.bgp_fsm_state # "UNKNOWN"
     /\ (s.cells[k] = NoCell \/ r.record_time >= s.cells[k].user.bgp_time_last_ts)

\* C22: an update not older than its cell, for an Inactive peer whose FSM state
\* is not UNKNOWN, makes the peer Active and ESTABLISHED with
\* ref_rib_start = ref_rib_end = ts, and the cell Active exactly when the
\* update is an announcement.  Stated for the state the engine is in and for
\* the states one further update record away from it.
C22_UpdateRevivesDownPeer ==
  \A s \in {Engine} \cup {routingtables_process_record(Engine, q) :
                            q \in UpdateRecords(NearU)} :
    \A r \in PrefixUpdateRecords(NearU) :
      LET id == r.elems[1].peer
          k == <<r.elems[1].prefix, id>>
          t == routingtables_process_record(s, r)
      IN DownPeerUpdate(s, r)
           => /\ ~ t.failed
              /\ t.peers[id].state = "ACTIVE"
              /\ t.peers[id].user.bgp_fsm_state = "ESTABLISHED"
              /\ t.peers[id].user.bgp_time_ref_rib_start = r.record_time
              /\ t.peers[id].user.bgp_time_ref_rib_end = r.record_time
              /\ (t.cells[k].state = "ACTIVE") = (r.elems[1].type = "ANNOUNCEMENT")

\* a withdrawal revives a peer that went down at an earlier time and leaves the
\* cell Inactive
C22_Witness ==
  \E r \in PrefixUpdateRecords(NearU) :
    LET id == r.elems[1].peer
        k == <<r.elems[1].prefix, id>>
        t == routingtables_process_record(Engine, r)
    IN /\ DownPeerUpdate(Engine, r)
       /\ r.elems[1].type = "WITHDRAWAL"
       /\ cells[k] # NoCell
       /\ peers[id].user.bgp_time_ref_rib_start # r.record_time
       /\ t.peers[id].state = "ACTIVE"
       /\ t.cells[k].state = "INACTIVE"

\* the same when the cell of the update is not Active under its Inactive peer
UpdateRevivesDownPeerOfDownCell ==
  \A r \in PrefixUpdateRecords(NearU) :
    LET id == r.elems[1].peer
        k == <<r.elems[1].prefix, id>>
        t == routingtables_process_record(Engine, r)
    IN (DownPeerUpdate(Engine, r) /\ cells[k].state # "ACTIVE")
         => /\ ~ t.failed
            /\ t.peers[id].state = "ACTIVE"
            /\ t.peers[id].user.bgp_fsm_state = "ESTABLISHED"
            /\ t.peers[id].user.bgp_time_ref_rib_start = r.record_time
            /\ t.peers[id].user.bgp_time_ref_rib_end = r.record_time
            /\ (t.cells[k].state = "ACTIVE") = (r.elems[1].type = "ANNOUNCEMENT")

\* the single-element records that carry a peer-state message
PeerStateRecords(u) == {r \in UpdateRecords(u) : r.elems[1].type = "PEERSTATE"}

\* the peer a state message finds: the existing one, or the one add_peer makes
PeerFound(s, id) == bgpwatcher_view_iter_add_peer(s, id).peers[id]

\* what a state message that is not a peer-down message does, by the claim:
\* a peer-up message activates the peer, any other message sets the FSM state
\* and the reference window and keeps the view state; no cell changes
StateMessageDone(s, t, r, repeats) ==
  LET id == r.elems[1].peer
      new_state == r.elems[1].new_state
      p == PeerFound(s, id)
  IN IF p.user.bgp_fsm_state = "ESTABLISHED" /\ new_state # "ESTABLISHED"
     THEN TRUE
     ELSE /\ ~ t.failed
          /\ t.cells = s.cells
          /\ IF p.user.bgp_fsm_state # "ESTABLISHED" /\ new_state = "ESTABLISHED"
             THEN t.peers[id].state = "ACTIVE"
             ELSE IF repeats /\ p.user.bgp_fsm_state = new_state
             THEN LivePeer(t.peers[id]) = LivePeer(p)
             ELSE LivePeer(t.peers[id])
                    = <<p.state, new_state, r.record_time, r.record_time>>

\* C23: a peer-state message at ts that is neither a peer-down nor a peer-up
\* transition, a message repeating the current state included, sets the FSM
\* state to the new state and ref_rib_start = ref_rib_end = ts and leaves the
\* view state and the cells unchanged; a peer-up message activates the peer
\* without changing any cell.
C23_StateMessageUpdatesWindow ==
  \A r \in PeerStateRecords(NearU) :
    (~ failed /\ ~ DiscardRecord(Engine, r.collector, r))
      => StateMessageDone(Engine, routingtables_process_record(Engine, r), r, FALSE)

\* C23, amended: the same, except that a message repeating the current FSM
\* state of the peer changes neither the FSM state nor the reference window.
C23_StateMessageUpdatesWindowUnlessRepeated ==
  \A r \in PeerStateRecords(NearU) :
    (~ failed /\ ~ DiscardRecord(Engine, r.collector, r))
      => StateMessageDone(Engine, routingtables_process_record(Engine, r), r, TRUE)

\* an IDLE message at a later time reaches a peer that is UNKNOWN with cells,
\* and another one repeats the state of an IDLE peer
C23_Witness ==
  \E r \in PeerStateRecords(NearU) :
    LET id == r.elems[1].peer
        t == routingtables_process_record(Engine, r)
    IN /\ ~ failed /\ ~ DiscardRecord(Engine, r.collector, r)
       /\ peers[id] # NoPeer
       /\ peers[id].user.bgp_fsm_state # "ESTABLISHED"
       /\ r.elems[1].new_state = "IDLE"
       /\ peers[id].user.bgp_time_ref_rib_start # r.record_time
       /\ \E k \in ValidCells : k[2] = id
       /\ \/ /\ peers[id].user.bgp_fsm_state = "UNKNOWN"
             /\ t.peers[id].user.bgp_time_ref_rib_start = r.record_time
          \/ /\ peers[id].user.bgp_fsm_state = "IDLE"
             /\ t.peers[id] = [peers[id] EXCEPT !.user.last_ts = r.record_time]

\* the RIB records in the middle of a dump that carry one row
RibRowRecords(u) ==
  {r \in RibRecords(u) : r.dump_pos = "MIDDLE" /\ Len(r.elems) = 1}

\* the row of the record is applied: the record is not discarded and belongs
\* to the dump under construction
RowApplied(s, r) ==
  /\ ~ s.failed
  /\ s.colls[r.collector] # NoCollector
  /\ ~ DiscardRecord(s, r.collector, r)
  /\ r.dump_time = s.colls[r.collector].bgp_time_uc_rib_dump_time

OtherDumpU == [NearU EXCEPT !.dumps = {1000, 2000}]

LaterRibRecords(u) == {r \in RibRecords(u) : r.dump_pos \in {"MIDDLE", "END"}}

\* the reference and under-construction RIB of a collector
RibIdentity(coll) ==
  <<coll.bgp_time_ref_rib_dump_time, coll.bgp_time_ref_rib_start_time,
    coll.bgp_time_uc_rib_dump_time, coll.bgp_time_uc_rib_start_time>>

\* C25: a valid RIB record, MIDDLE or END, whose dump_time differs from the
\* bgp_time_uc_rib_dump_time of its collector changes no peer and no cell, and
\* leaves the reference and under-construction RIB of the collector as they are.
C25_OtherDumpIgnored ==
  \A r \in LaterRibRecords(OtherDumpU) :
    LET c == r.collector
        s0 == get_collector_data(Engine, c)
        t == routingtables_process_record(Engine, r)
    IN (~ failed /\ r.dump_time # s0.colls[c].bgp_time_uc_rib_dump_time)
         => /\ ~ t.failed
            /\ t.peers = peers
            /\ t.cells = cells
            /\ RibIdentity(t.colls[c]) = RibIdentity(s0.colls[c])

\* the END record of another dump, with a row, arrives while a dump with rows
\* is under construction
C25_Witness ==
  \E r \in LaterRibRecords(OtherDumpU) :
    LET c == r.collector
        t == routingtables_process_record(Engine, r)
    IN /\ ~ failed
       /\ c \in KnownCollectors
       /\ colls[c].bgp_time_uc_rib_dump_time # 0
       /\ r.dump_time # colls[c].bgp_time_uc_rib_dump_time
       /\ ~ DiscardRecord(Engine, c, r)
       /\ r.dump_pos = "END" /\ Len(r.elems) = 1
       /\ \E k \in ValidCells : cells[k].user.uc_origin_asn # ROUTINGTABLES_DOWN_ORIGIN_ASN
       /\ t.cells = cells
       /\ t.colls[c].valid_record_cnt = colls[c].valid_record_cnt + 1

\* the RIB END records of universe u
RibEndRecords(u) == {r \in RibRecords(u) : r.dump_pos = "END"}

\* the state end_of_valid_rib starts from: the rows of the END record applied
BeforeRibEnd(s, r) ==
  collector_process_valid_bgpinfo(s, r.collector, [r EXCEPT !.dump_pos = "MIDDLE"])

\* peer id and its cells are demoted in state t
Demoted(t, id) ==
  /\ LivePeer(t.peers[id])[1] = "INACTIVE"
  /\ LivePeer(t.peers[id])[2] = "UNKNOWN"
  /\ \A k \in CellKeys :
       (k[2] = id /\ t.cells[k] # NoCell)
         => LiveCell(t.cells[k]) = <<"INACTIVE", ROUTINGTABLES_DOWN_ORIGIN_ASN, 0>>

\* peer id has in t the live state and the cells it has in s
Kept(s, t, id) ==
  /\ LivePeer(t.peers[id]) = LivePeer(s.peers[id])
  /\ \A k \in CellKeys : k[2] = id => t.cells[k] = s.cells[k]

\* what the claim says of the end of a RIB; lowest is the least bgp_time_last
\* it is stated for
RibEndDone(s, r, lowest) ==
  LET c == r.collector
      mid == BeforeRibEnd(s, r)
      t == routingtables_process_record(s, r)
      silent(id) == /\ mid.peers[id].user.bgp_fsm_state = "ESTABLISHED"
                    /\ mid.peers[id].user.last_ts
                         < mid.colls[c].bgp_time_last - ROUTINGTABLES_MAX_INACTIVE_TIME
  IN (RowApplied(s, r) /\ ~ mid.failed /\ mid.colls[c].bgp_time_last >= lowest)
       => /\ ~ t.failed
          /\ \A id \in CollectorPeers(mid, c) :
               IF mid.peers[id].user.bgp_time_uc_rib_start = 0
               THEN IF silent(id) THEN Demoted(t, id) ELSE Kept(mid, t, id)
               ELSE UcPeer(t.peers[id]) = <<0, 0>>
          /\ RibIdentity(t.colls[c])
               = <<s.colls[c].bgp_time_uc_rib_dump_time,
                   s.colls[c].bgp_time_uc_rib_start_time, 0, 0>>

\* C26: at the end of a RIB of collector C, a peer of C without a row in the
\* dump is demoted (UNKNOWN, Inactive, cells wiped and Inactive) if and only if
\* it is ESTABLISHED and its last_ts < C.bgp_time_last - 3600, and otherwise
\* keeps its state and cells; every peer with rows has uc_rib_* = 0 afterwards
\* and the reference RIB of C is the finished dump, the UC one cleared.
C26_RibEndDemotesSilentPeers ==
  \A r \in RibEndRecords(FarU) : RibEndDone(Engine, r, 0)

\* the same for bgp_time_last >= 3600
RibEndDemotesSilentPeersLate ==
  \A r \in RibEndRecords(FarU) :
    RibEndDone(Engine, r, ROUTINGTABLES_MAX_INACTIVE_TIME)

\* the update and RIB records of the far universe: withdrawals, announcements
\* and dumps more than a backlog window apart, so that the end of a RIB finds
\* mismatches of both kinds
NextDumps ==
  \/ ProcessUpdates(FarU)
  \/ ProcessRib(FarU)

SpecDumps == Init /\ [][NextDumps]_vars

\* the mismatch counters of a peer
Mismatches(peer) ==
  <<peer.user.rib_positive_mismatches_cnt, peer.user.rib_negative_mismatches_cnt>>

\* the RIB is newer than the live cell k and the live update is not within the
\* backlog window before the RIB start
BacklogHolds(s, k) ==
  LET pp == s.cells[k].user
      p == s.peers[k[2]].user
  IN /\ s.cells[k] # NoCell
     /\ p.bgp_time_uc_rib_start # 0
     /\ pp.bgp_time_uc_delta_ts + p.bgp_time_uc_rib_start > pp.bgp_time_last_ts
     /\ ~ (pp.bgp_time_last_ts
             > p.bgp_time_uc_rib_start - ROUTINGTABLES_RIB_BACKLOG_TIME)

\* the cells of peer id on which the end of the RIB finds a missed
\* announcement (of Active cells only, if active) and a missed withdrawal
MissedAnnouncements(s, c, id, active) ==
  {k \in CellKeys :
     /\ k[2] = id /\ id \in CollectorPeers(s, c) /\ BacklogHolds(s, k)
     /\ s.cells[k].user.uc_origin_asn # ROUTINGTABLES_DOWN_ORIGIN_ASN
     /\ s.cells[k].user.bgp_time_last_ts # 0
     /\ s.cells[k].orig_asn = ROUTINGTABLES_DOWN_ORIGIN_ASN
     /\ active => s.cells[k].state = "ACTIVE"}

MissedWithdrawals(s, c, id) ==
  {k \in CellKeys :
     /\ k[2] = id /\ id \in CollectorPeers(s, c) /\ BacklogHolds(s, k)
     /\ s.cells[k].user.uc_origin_asn = ROUTINGTABLES_DOWN_ORIGIN_ASN
     /\ s.cells[k].state = "ACTIVE"}

\* record r moves the mismatch counters as the claim says: the end of a RIB by
\* the cells with a mismatch, every other record not at all
MismatchesCounted(s, r, active) ==
  LET c == r.collector
      mid == BeforeRibEnd(s, r)
      t == routingtables_process_record(s, r)
      ends == /\ r.status = "VALID_RECORD" /\ r.dump_type = "RIB"
              /\ r.dump_pos = "END" /\ RowApplied(s, r)
  IN ~ t.failed
       => \A id \in PeerIds :
            Mismatches(t.peers[id])
              = IF ends
                THEN <<Mismatches(s.peers[id])[1]
                         + Cardinality(MissedWithdrawals(mid, c, id)),
                       Mismatches(s.peers[id])[2]
                         + Cardinality(MissedAnnouncements(mid, c, id, active))>>
                ELSE Mismatches(s.peers[id])

\* C27: at the end of a RIB, for each cell where the backlog predicate holds,
\* the negative-mismatch counter of the peer grows by one exactly when the UC
\* row has a route and the live cell was Active with last_ts # 0 and origin
\* DOWN, and the positive-mismatch counter grows by one exactly when the prefix
\* is absent from the RIB and the live cell was Active; no other event changes
\* the counters.
C27_MismatchCounters ==
  \A r \in AllRecords(FarU) : ~ failed => MismatchesCounted(Engine, r, TRUE)

\* C27, amended: the negative mismatch is counted when the live cell has
\* last_ts # 0 and origin DOWN, whatever its Active flag.
C27_MismatchCountersOfWithdrawnCells ==
  \A r \in AllRecords(FarU) : ~ failed => MismatchesCounted(Engine, r, FALSE)

\* the end of a RIB finds a route for a withdrawn cell, and another one finds
\* no route for an Active cell
C27_Witness ==
  /\ ~ failed
  /\ \E r \in RibEndRecords(FarU) : \E id \in ValidPeers :
       /\ RowApplied(Engine, r)
       /\ MissedAnnouncements(BeforeRibEnd(Engine, r), r.collector, id, FALSE) # {}
       /\ Mismatches(routingtables_process_record(Engine, r).peers[id])[2]
            = Mismatches(peers[id])[2] + 1

\* the end of a RIB finds no route for an Active cell
MissedWithdrawalCounted ==
  /\ ~ failed
  /\ \E r \in RibEndRecords(FarU) : \E id \in ValidPeers :
       /\ RowApplied(Engine, r)
       /\ MissedWithdrawals(BeforeRibEnd(Engine, r), r.collector, id) # {}
       /\ Mismatches(routingtables_process_record(Engine, r).peers[id])[1]
            = Mismatches(peers[id])[1] + 1

\* record r leaves bgp_time_last of its collector at the larger of its old
\* value and the record time (at the old value when the record is discarded),
\* and an empty or filtered record changes no peer and no cell
TimeLastDone(s, r) ==
  LET c == r.collector
      s0 == get_collector_data(s, c)
      t == routingtables_process_record(s, r)
      old == s0.colls[c].bgp_time_last
  IN /\ t.colls[c].bgp_time_last >= old
     /\ t.colls[c].bgp_time_last
          = IF DiscardRecord(s0, c, r) \/ r.record_time < old THEN old
            ELSE r.record_time
     /\ r \in EmptyRecords(FarU) => t.peers = s.peers /\ t.cells = s.cells

\* C28: bgp_time_last of a collector never decreases and is the maximum
\* record_time of the records processed so far for the collector; empty and
\* filtered-source records change no peer and no cell.
C28_TimeLastIsMaximum ==
  \A r \in AllRecords(FarU) : ~ failed => TimeLastDone(Engine, r)

\* the same for the records that are not empty or filtered, and the frame of
\* the empty and filtered ones
TimeLastIsMaximumButEmpty ==
  \A r \in AllRecords(FarU) :
    ~ failed
      => IF r \in EmptyRecords(FarU)
         THEN LET t == routingtables_process_record(Engine, r)
              IN t.peers = peers /\ t.cells = cells
         ELSE routingtables_process_record(Engine, r).failed
                \/ TimeLastDone(Engine, r)

\* one collector, one peer, one prefix, two record times
OneU == [FarU EXCEPT !.pfxs = {"10.0.0.0/24"}]

NextOne ==
  \/ ProcessUpdates(OneU)
  \/ ProcessRib(OneU)
  \/ ProcessCorrupted(OneU)
  \/ ProcessEmpty(OneU)

SpecOne == Init /\ [][NextOne]_vars

\* the announcements and RIB rows that fail the peer-path sanity test
SkippedElems(u, c, type) ==
  UNION { {Elem(type, id, x, path, "UNKNOWN") :
             x \in u.pfxs, path \in PathsOf(id) \ GoodPathsOf(id)}
          : id \in {i \in u.peers : PeerCollector(i) = c} }

\* the update and RIB records with at most one element that passes the test
SaneRecords(u) ==
  {r \in UpdateRecords(u) \cup RibRecords(u) :
     \A i \in DOMAIN r.elems : ~ SkipElem(r.elems[i])}

\* the type of the elements of a record
ElemType(r) == IF r.dump_type = "RIB" THEN "RIB" ELSE "ANNOUNCEMENT"

\* C29: an announcement or RIB row whose AS path is empty or starts with a
\* single ASN that is not the ASN of its peer is skipped without any change of
\* state, and the other elements of the record are processed as if it were not
\* there; withdrawals and peer-state elements are never skipped.
C29_SkippedElemChangesNothing ==
  \A r \in SaneRecords(OneU) :
    /\ \A bad \in SkippedElems(OneU, r.collector, ElemType(r)) :
         /\ SkipElem(bad)
         /\ routingtables_process_record(Engine, [r EXCEPT !.elems = <<bad>> \o @])
              = routingtables_process_record(Engine, r)
         /\ routingtables_process_record(Engine, [r EXCEPT !.elems = @ \o <<bad>>])
              = routingtables_process_record(Engine, r)
    /\ \A i \in DOMAIN r.elems :
         r.elems[i].type \in {"WITHDRAWAL", "PEERSTATE"}
           => ~ SkipElem(r.elems[i])

\* an announcement with a foreign first ASN comes before a withdrawal that
\* takes an Active cell down, and creates nothing for a peer that is not known
C29_Witness ==
  /\ ~ failed
  /\ \E r \in SaneRecords(OneU) :
     \E bad \in SkippedElems(OneU, r.collector, ElemType(r)) :
       LET t == routingtables_process_record(Engine, [r EXCEPT !.elems = <<bad>> \o @])
           k == <<bad.prefix, bad.peer>>
       IN /\ Len(bad.aspath) > 0
          /\ Len(r.elems) = 1
          /\ r.elems[1].type = "WITHDRAWAL"
          /\ cells[k].state = "ACTIVE"
          /\ t.cells[k].state = "INACTIVE"
          /\ ~ t.failed

\* a skipped RIB row and a skipped announcement reach an engine that does not
\* know their peer, and leave it unknown
SkippedElemCreatesNothing ==
  \A r \in SaneRecords(OneU) :
    \A bad \in SkippedElems(OneU, r.collector, ElemType(r)) :
      LET t == routingtables_process_record(Engine, [r EXCEPT !.elems = <<bad>>])
      IN (~ failed /\ peers[bad.peer] = NoPeer)
           => /\ t.peers = peers
              /\ t.cells = cells
              /\ t.colls[r.collector].collector_peerids = {}

\* C30: for all timestamps, uc_rib_start < 60 and bgp_time_last < 3600
\* included, the subtractions of end_of_valid_rib behave as integer
\* subtractions: the scan takes the RIB side of a cell exactly when the backlog
\* predicate holds over the integers, and the peer loop demotes a peer only
\* when last_ts < bgp_time_last - 3600 over the integers.
C30_NoUnsignedWrap ==
  \A c \in UcCollectors :
    /\ \A k \in ValidCells :
         InRibScan(Engine, c, k)
           => (RibIsNewer(cells[k].user, peers[k[2]].user) <=> BacklogPredicate(k))
    /\ \A id \in CollectorPeers(Engine, c) :
         RibDemotes(Engine, c, id)
           => peers[id].user.last_ts
                < colls[c].bgp_time_last - ROUTINGTABLES_MAX_INACTIVE_TIME

\* the same for the backlog test alone
NoUnsignedWrapInBacklog ==
  \A c \in UcCollectors : \A k \in ValidCells :
    InRibScan(Engine, c, k)
      => (RibIsNewer(cells[k].user, peers[k[2]].user) <=> BacklogPredicate(k))

\* the record is older than the reference RIB of its collector
OlderThanReference(s, r) ==
  r.record_time < get_collector_data(s, r.collector).colls[r.collector].bgp_time_ref_rib_start_time

\* C31: apply_prefix_update only runs with an update time that is at least the
\* bgp_time_ref_rib_start_time of the collector: an announcement or withdrawal
\* record older than the reference RIB changes no peer and no cell, whether or
\* not a RIB is under construction.
C31_OldRecordsNeverApplied ==
  \A r \in PrefixUpdateRecords(FarU) :
    (~ failed /\ OlderThanReference(Engine, r))
      => LET t == routingtables_process_record(Engine, r)
         IN t.peers = peers /\ t.cells = cells

\* the same while a RIB is under construction
OldRecordsDiscardedDuringDump ==
  \A r \in AllRecords(FarU) :
    (~ failed /\ OlderThanReference(Engine, r)
       /\ colls[r.collector].bgp_time_uc_rib_dump_time # 0)
      => routingtables_process_record(Engine, r) = Engine

\* the prefixes of family v that search_exact finds in the tree
PrefixSetOf(pt, v) == {pfx \in PrefixSet(pt) : pfx.version = v}

\* C32: after any sequence of insertions and removals
\* bgpstream_patricia_prefix_count(v) is the number of distinct prefixes of
\* family v in the tree, also after an insertion onto a glue node and a removal
\* of a prefix node with two children.
C32_PrefixCountIsCardinality ==
  ~ trie.failed
    => \A v \in {"IPV4", "IPV6"} :
         bgpstream_patricia_prefix_count(trie, v) = Cardinality(PrefixSetOf(trie, v))

\* the same for the insertions that create a node and the removals of a node
\* without two children, by the change of the count
PrefixCountFollowsNodes ==
  \A pfx \in TriePfxs :
    LET v == pfx.version
        ins == bgpstream_patricia_tree_insert(trie, pfx).pt
        rem == bgpstream_patricia_tree_remove(trie, pfx)
        node == bgpstream_patricia_tree_search_exact(trie, pfx)
        fresh == ins.nodes[bgpstream_patricia_tree_insert(trie, pfx).node]
                   # trie.nodes[bgpstream_patricia_tree_insert(trie, pfx).node]
    IN ~ trie.failed
         => /\ (~ ins.failed /\ pfx \notin PrefixSet(trie)
                  /\ trie.nodes[bgpstream_patricia_tree_insert(trie, pfx).node] = FreeNode)
                 => bgpstream_patricia_prefix_count(ins, v)
                      = bgpstream_patricia_prefix_count(trie, v) + 1
            /\ (~ rem.failed /\ node # 0
                  /\ (trie.nodes[node].l = 0 /\ trie.nodes[node].r = 0))
                 => bgpstream_patricia_prefix_count(rem, v)
                      = bgpstream_patricia_prefix_count(trie, v) - 1

\* bgpstream_patricia_tree_find_more_specific: a prefix node in the subtree
RECURSIVE bgpstream_patricia_tree_find_more_specific(_, _)
bgpstream_patricia_tree_find_more_specific(pt, node) ==
  IF node = 0 THEN FALSE
  ELSE IF pt.nodes[node].prefix.version = "UNKNOWN"
          /\ ~ bgpstream_patricia_tree_find_more_specific(pt, pt.nodes[node].l)
          /\ ~ bgpstream_patricia_tree_find_more_specific(pt, pt.nodes[node].r)
  THEN FALSE
  ELSE TRUE

\* the walk up the parents of bgpstream_patricia_tree_get_node_overlap_info:
\* the first prefix node above, 0 when the walk passes the head
RECURSIVE OverlapAscend(_, _)
OverlapAscend(pt, node_it) ==
  IF node_it = 0 THEN 0
  ELSE IF pt.nodes[node_it].prefix.version # "UNKNOWN" THEN node_it
  ELSE OverlapAscend(pt, pt.nodes[node_it].parent)

\* the mask as the set of its bits
bgpstream_patricia_tree_get_node_overlap_info(pt, node) ==
  LET node_it == OverlapAscend(pt, pt.nodes[node].parent)
      less == IF node_it # 0 THEN {"LESS_SPECIFICS"} ELSE {}
      more == IF node_it # 0
                 /\ (bgpstream_patricia_tree_find_more_specific(pt, pt.nodes[node].l)
                     \/ bgpstream_patricia_tree_find_more_specific(pt, pt.nodes[node].r))
              THEN {"MORE_SPECIFICS"} ELSE {}
  IN less \cup more

\* the mask and the tree bgpstream_patricia_tree_get_pfx_overlap_info leaves
bgpstream_patricia_tree_get_pfx_overlap_info(pt, pfx) ==
  LET n == bgpstream_patricia_tree_search_exact(pt, pfx)
      ins == bgpstream_patricia_tree_insert(pt, pfx)
  IN IF n # 0
     THEN [pt |-> pt, mask |-> bgpstream_patricia_tree_get_node_overlap_info(pt, n)]
     ELSE IF ins.pt.failed \/ ins.node = 0
     THEN [pt |-> ins.pt, mask |-> {}]
     ELSE [pt |-> bgpstream_patricia_tree_remove_node(ins.pt, ins.node),
           mask |-> bgpstream_patricia_tree_get_node_overlap_info(ins.pt, ins.node)]

\* q covers p and is shorter
StrictlyLessSpecific(q, p) ==
  /\ q.version = p.version
  /\ q.mask_len < p.mask_len
  /\ comp_with_mask(q.addr, p.addr, q.mask_len)

HasLessSpecific(pt, p) == \E q \in PrefixSet(pt) : StrictlyLessSpecific(q, p)

HasMoreSpecific(pt, p) == \E q \in PrefixSet(pt) : StrictlyLessSpecific(p, q)

\* the mask the prefix set of the tree calls for
ExpectedOverlap(pt, p) ==
  (IF HasLessSpecific(pt, p) THEN {"LESS_SPECIFICS"} ELSE {})
    \cup (IF HasMoreSpecific(pt, p) THEN {"MORE_SPECIFICS"} ELSE {})

\* the tree answers the same questions: prefix set, counts and exact searches
SameAnswers(pt, qt) ==
  /\ PrefixSet(pt) = PrefixSet(qt)
  /\ \A v \in {"IPV4", "IPV6"} :
       bgpstream_patricia_prefix_count(pt, v) = bgpstream_patricia_prefix_count(qt, v)
  /\ \A q \in TriePfxs :
       (bgpstream_patricia_tree_search_exact(pt, q) = 0)
         = (bgpstream_patricia_tree_search_exact(qt, q) = 0)

\* C33: the overlap mask of a prefix p has LESS_SPECIFICS exactly when the tree
\* holds a strictly less specific prefix and MORE_SPECIFICS exactly when it
\* holds a strictly more specific one, each bit on its own; the query of a
\* prefix that is not in the tree leaves prefix set, counts and searches as
\* they were.
C33_OverlapInfo ==
  \A p \in TriePfxs :
    ~ trie.failed
      => LET o == bgpstream_patricia_tree_get_pfx_overlap_info(trie, p)
         IN /\ ~ o.pt.failed
            /\ o.mask = ExpectedOverlap(trie, p)
            /\ SameAnswers(o.pt, trie)

\* the less-specific bit alone, and the more-specific bit when the
\* less-specific bit is set
OverlapInfoUnderLessSpecific ==
  \A p \in TriePfxs :
    LET o == bgpstream_patricia_tree_get_pfx_overlap_info(trie, p)
    IN (~ trie.failed /\ ~ o.pt.failed)
         => /\ ("LESS_SPECIFICS" \in o.mask) = HasLessSpecific(trie, p)
            /\ HasLessSpecific(trie, p)
                 => (("MORE_SPECIFICS" \in o.mask) = HasMoreSpecific(trie, p))

\* the more-specific bit is never set alone
MoreSpecificOnlyWithLessSpecific ==
  \A p \in TriePfxs :
    LET o == bgpstream_patricia_tree_get_pfx_overlap_info(trie, p)
    IN ~ trie.failed => (o.mask # {"MORE_SPECIFICS"})

\* the query of an absent prefix leaves the answers of the tree alone
OverlapQueryLeavesTree ==
  \A p \in TriePfxs :
    LET o == bgpstream_patricia_tree_get_pfx_overlap_info(trie, p)
    IN (~ trie.failed /\ ~ o.pt.failed) => SameAnswers(o.pt, trie)


(* ------------------------------------------------------------------ *)
(* bgpwatcher server: state machine                                    *)
(* ------------------------------------------------------------------ *)

\* zclock_time moves on while the server runs
Tick ==
  /\ server.rc = 0
  /\ clock < MaxClock
  /\ clock' = clock + 1
  /\ UNCHANGED <<engineVars, trieVars, server, brokerVars, parserVars>>

\* the loop of bgpwatcher_server_start: one more run_server while the last one
\* returned 0
RunServer ==
  \E in \in ServerInputs :
    LET t == run_server(server, in, clock)
    IN /\ server.rc = 0
       /\ t.table_num <= MaxTables
       /\ server' = t
       /\ UNCHANGED <<engineVars, trieVars, clock, brokerVars, parserVars>>

NextServer == RunServer \/ Tick

SpecServer == Init /\ [][NextServer]_vars

\* the callback cbfunc was invoked for client c in the last iteration
Called(s, cbfunc, c) == \E i \in 1..Len(s.calls) : s.calls[i] = <<cbfunc, c>>

\* the fault-free data messages of client c
CleanData(c, dmt, tt) ==
  [identity |-> c, type |-> "DATA", dmt |-> dmt, table_type |-> tt,
   fault |-> "none", purge_fail |-> 0]

\* the table state of the clients
TableState(s) ==
  [c \in ClientIds |->
     <<s.clients[c].pfx_table_started, s.clients[c].peer_table_started,
       s.clients[c].pfx_table_id, s.clients[c].peer_table_id>>]

\* a message out of order is rejected: run_server returns -1 in the error
\* state, no callback is invoked, no table state changes
Rejected(m) ==
  LET t == run_server(server, [poll |-> "message", msg |-> m], clock)
  IN /\ t.rc = 0 - 1
     /\ t.err
     /\ t.calls = <<>>
     /\ TableState(t) = TableState(server)
     /\ t.table_num = server.table_num

OutOfOrderRejected ==
  \A c \in ClientIds :
    (server.rc = 0 /\ server.clients[c].present)
      => /\ server.clients[c].pfx_table_started # 0
              => Rejected(CleanData(c, "TABLE_BEGIN", "PREFIX"))
         /\ server.clients[c].pfx_table_started = 0
              => /\ Rejected(CleanData(c, "TABLE_END", "PREFIX"))
                 /\ Rejected(CleanData(c, "PREFIX_RECORD", "UNKNOWN"))
         /\ server.clients[c].peer_table_started # 0
              => Rejected(CleanData(c, "TABLE_BEGIN", "PEER"))
         /\ server.clients[c].peer_table_started = 0
              => /\ Rejected(CleanData(c, "TABLE_END", "PEER"))
                 /\ Rejected(CleanData(c, "PEER_RECORD", "UNKNOWN"))

\* the ids of the started tables are below the counter and differ
StartedIds ==
  LET started == {<<c, "PREFIX">> : c \in {d \in ClientIds :
                                             server.clients[d].pfx_table_started # 0}}
                   \cup {<<c, "PEER">> : c \in {d \in ClientIds :
                                                  server.clients[d].peer_table_started # 0}}
      id(x) == IF x[2] = "PREFIX" THEN server.clients[x[1]].pfx_table_id
               ELSE server.clients[x[1]].peer_table_id
  IN \A x \in started :
       /\ id(x) < server.table_num
       /\ \A y \in started : id(x) = id(y) => x = y

\* the callbacks of an iteration follow the order begin, records, end of each
\* table of each client; a table starts and ends only with its own callback;
\* a started table takes the counter as its id and the counter moves on
TableOrderStep ==
  \A c \in ClientIds :
    LET old == server.clients[c]
        new == server'.clients[c]
    IN /\ Called(server', "table_begin_prefix", c)
            => /\ old.pfx_table_started = 0 /\ new.pfx_table_started = 1
               /\ new.pfx_table_id = server.table_num
               /\ server'.table_num = server.table_num + 1
       /\ Called(server', "table_end_prefix", c)
            => old.pfx_table_started = 1 /\ new.pfx_table_started = 0
       /\ Called(server', "recv_pfx_record", c)
            => old.pfx_table_started = 1 /\ new.pfx_table_started = 1
       /\ Called(server', "table_begin_peer", c)
            => /\ old.peer_table_started = 0 /\ new.peer_table_started = 1
               /\ new.peer_table_id = server.table_num
               /\ server'.table_num = server.table_num + 1
       /\ Called(server', "table_end_peer", c)
            => old.peer_table_started = 1 /\ new.peer_table_started = 0
       /\ Called(server', "recv_peer_record", c)
            => old.peer_table_started = 1 /\ new.peer_table_started = 1
       /\ (new.present /\ old.present
             /\ new.pfx_table_started # old.pfx_table_started)
            => (Called(server', "table_begin_prefix", c)
                  \/ Called(server', "table_end_prefix", c))
       /\ (new.present /\ old.present
             /\ new.peer_table_started # old.peer_table_started)
            => (Called(server', "table_begin_peer", c)
                  \/ Called(server', "table_end_peer", c))
       /\ server'.table_num >= server.table_num

\* C34: per client and per table the server enforces the order TABLE_BEGIN,
\* records, TABLE_END: a begin of a started table, an end of a table that is
\* not started and a record of a table that is not started are rejected as
\* protocol errors without a callback; the prefix and peer tables of a client
\* and the tables of different clients are tracked apart; a started table gets
\* the table counter as its id, which no table had before.
C34_TableOrder ==
  /\ [](OutOfOrderRejected /\ StartedIds)
  /\ [][server' # server => TableOrderStep]_vars

\* two clients with a started table each, one a prefix table and one a peer
\* table, started in the last iteration
C34_Witness ==
  /\ server.rc = 0
  /\ server.clients[1].pfx_table_started = 1
  /\ server.clients[1].peer_table_started = 0
  /\ server.clients[2].peer_table_started = 1
  /\ server.clients[2].pfx_table_started = 0
  /\ server.clients[1].pfx_table_id # server.clients[2].peer_table_id
  /\ server.calls = <<<<"table_begin_peer", 2>>>>

\* the data messages of registered clients whose handling fails
FailingData ==
  {m \in TableMessages \cup RecordMessages :
     /\ server.clients[m.identity].present
     /\ handle_message(client_get(server, m.identity, clock), m.identity, m).rc # 0}

\* C35: a data message whose handling fails is as if it had not been received:
\* the table state of the clients and the table counter are as before, and
\* run_server returns 0 so that the loop of bgpwatcher_server_start goes on.
C35_FailedMessageIgnored ==
  server.rc = 0
    => \A m \in FailingData :
         LET t == run_server(server, [poll |-> "message", msg |-> m], clock)
         IN /\ t.rc = 0
            /\ TableState(t) = TableState(server)
            /\ t.table_num = server.table_num

\* the same for the table state alone, callback failures apart
FailedMessageKeepsTables ==
  server.rc = 0
    => \A m \in FailingData :
         LET t == run_server(server, [poll |-> "message", msg |-> m], clock)
         IN m.fault # "cb"
              => /\ TableState(t) = TableState(server)
                 /\ t.table_num = server.table_num

\* the server stops at every failing data message
FailedMessageStopsServer ==
  server.rc = 0
    => \A m \in FailingData :
         run_server(server, [poll |-> "message", msg |-> m], clock).rc = 0 - 1

\* the number of callbacks cbfunc for client c in the last iteration
CallCount(s, cbfunc, c) ==
  Cardinality({i \in 1..Len(s.calls) : s.calls[i] = <<cbfunc, c>>})

\* client c is in the table with an expiry that has passed at time now
Expired(s, c, now) == s.clients[c].present /\ now >= s.clients[c].expiry

\* a message of a registered client sets its expiry
ExpiryTouched ==
  \A in \in ServerInputs :
    LET t == run_server(server, in, clock)
        c == in.msg.identity
    IN (server.rc = 0 /\ in.poll = "message" /\ server.clients[c].present
          /\ t.clients[c].present)
         => t.clients[c].expiry = clock + HeartbeatInterval * HeartbeatLiveness

\* a client that the purge removed got one client_disconnect callback
PurgedOnce ==
  \A in \in ServerInputs :
    LET t == run_server(server, in, clock)
    IN \A c \in ClientIds :
         (server.rc = 0 /\ server.clients[c].present /\ ~ t.clients[c].present)
           => CallCount(t, "client_disconnect", c) = 1

\* no expired client is left when run_server returns 0
NoExpiredLeft ==
  \A in \in ServerInputs :
    LET t == run_server(server, in, clock)
    IN (server.rc = 0 /\ t.rc = 0)
         => \A c \in ClientIds : ~ Expired(t, c, clock)

\* C36: every message of a registered client moves its expiry to now +
\* heartbeat_interval * heartbeat_liveness; after an iteration of run_server
\* that returns 0 no client whose expiry has passed is left in the table,
\* wherever it sits in the table; each purged client gets exactly one
\* client_disconnect callback.
C36_ClientLiveness == ExpiryTouched /\ PurgedOnce /\ NoExpiredLeft

\* an expired client is left only behind a live client of a lower slot
ExpiredLeftBehindLive ==
  \A in \in ServerInputs :
    LET t == run_server(server, in, clock)
    IN (server.rc = 0 /\ t.rc = 0)
         => \A c \in ClientIds :
              Expired(t, c, clock)
                => \E d \in ClientIds :
                     d < c /\ t.clients[d].present /\ ~ Expired(t, d, clock)

\* the expiry and the callbacks alone
ExpiryAndCallbacks == ExpiryTouched /\ PurgedOnce

(* ------------------------------------------------------------------ *)
(* broker data source: state machine                                   *)
(* ------------------------------------------------------------------ *)

\* the state after bgpstream_broker_datasource_create, for each filter manager
\* and each build
InitBroker ==
  /\ peers = [id \in PeerIds |-> NoPeer]
  /\ cells = [k \in CellKeys |-> NoCell]
  /\ colls = [c \in Collectors |-> NoCollector]
  /\ failed = FALSE
  /\ trie = bgpstream_patricia_tree_create
  /\ clock = 0
  /\ server = bgpwatcher_server_init(0)
  /\ broker \in {bgpstream_broker_datasource_create(f, BrokerUrl, a) :
                   f \in FilterMgrs, a \in BOOLEAN}
  /\ parser = ParserStart

\* one call of bgpstream_broker_datasource_update_input_queue
UpdateInputQueue ==
  \E resp \in Responses :
    /\ ~ broker.aborted
    /\ broker' = bgpstream_broker_datasource_update_input_queue(broker, resp)
    /\ UNCHANGED <<engineVars, trieVars, serverVars, parserVars>>

NextBroker == UpdateInputQueue

SpecBroker == InitBroker /\ [][NextBroker]_vars

\* C37: in bgpstream_broker_datasource_update_input_queue the wait before a
\* retry starts at 1 second, doubles after each failed attempt and never
\* exceeds MAX_WAIT_TIME.
C37_RetryWaitBounded ==
  LET w == broker.waits
  IN /\ w # <<>> => w[1] = 1
     /\ \A i \in 1..(Len(w) - 1) : w[i + 1] = 2 * w[i] \/ w[i + 1] = w[i]
     /\ \A i \in 1..Len(w) : w[i] <= MAX_WAIT_TIME

\* the waits start at 1, double while they are below MAX_WAIT_TIME and stay
\* below twice MAX_WAIT_TIME
RetryWaitDoublesBelowMax ==
  LET w == broker.waits
  IN /\ w # <<>> => w[1] = 1
     /\ \A i \in 1..(Len(w) - 1) :
          w[i + 1] = (IF w[i] < MAX_WAIT_TIME THEN 2 * w[i] ELSE w[i])
     /\ \A i \in 1..Len(w) : w[i] < 2 * MAX_WAIT_TIME

\* the data source as bgpstream_broker_datasource_create left it
Created(b) == bgpstream_broker_datasource_create(b.filter_mgr, BrokerUrl, FALSE)

\* the last call of update_input_queue returned a number of results
CallSucceeded(b) == b.query # <<>> /\ b.rc >= 0

\* the "?" and "&" of a query url, in their order
Separators(url) == SelectSeq(url, LAMBDA str : str \in {"?", "&"})

\* "?" before the first parameter and "&" before the later ones
WellSeparated(url) ==
  LET seps == Separators(url)
  IN \A i \in 1..Len(seps) : seps[i] = (IF i = 1 THEN "?" ELSE "&")

\* the responses that are results
Results == {resp \in Responses : resp.outcome = "ok"}

\* C38: update_input_queue can be called any number of times: after every
\* successful call the query url and its bookkeeping (query_url_remaining,
\* first_param) are as bgpstream_broker_datasource_create left them, the url
\* of every request has "?" before the first parameter and "&" before the
\* later ones, and a call does not fail because of the calls before it.
C38_QueryUrlReusable ==
  /\ CallSucceeded(broker)
       => /\ broker.query_url_buf = Created(broker).query_url_buf
          /\ broker.query_url_remaining = Created(broker).query_url_remaining
          /\ broker.first_param = Created(broker).first_param
  /\ WellSeparated(broker.query)
  /\ (~ broker.aborted /\ (broker.query = <<>> \/ CallSucceeded(broker)))
       => \A resp \in Results :
            bgpstream_broker_datasource_update_input_queue(broker, resp).rc >= 0

\* after a successful call the text of the url is the one of create
QueryUrlTextRestored ==
  CallSucceeded(broker) => broker.query_url_buf = Created(broker).query_url_buf

\* the room left in the buffer is never more than the buffer less the text
RemainingBelowRoom ==
  broker.query_url_remaining <= URL_BUFLEN - strlen(broker.query_url_buf)

\* the bookkeeping is restored as long as no call appended a parameter
BookkeepingRestoredWithoutParameters ==
  (CallSucceeded(broker) /\ broker.query = Created(broker).query_url_buf)
    => /\ broker.query_url_remaining = Created(broker).query_url_remaining
       /\ broker.first_param = Created(broker).first_param

(* ------------------------------------------------------------------ *)
(* filter string parser: state machine                                 *)
(* ------------------------------------------------------------------ *)

\* strtok_r returns one more token and the loop handles it
ParseToken ==
  \E tok \in FilterTokens :
    /\ ~ parser.done
    /\ Len(parser.tokens) < MaxTokens
    /\ parser' = ParseStep(parser, tok)
    /\ UNCHANGED <<engineVars, trieVars, serverVars, brokerVars>>

\* strtok_r returns NULL: the loop ends and the function returns ret
EndOfString ==
  /\ ~ parser.done
  /\ parser' = [parser EXCEPT !.done = TRUE]
  /\ UNCHANGED <<engineVars, trieVars, serverVars, brokerVars>>

NextParser == ParseToken \/ EndOfString

SpecParser == Init /\ [][NextParser]_vars

\* The filter strings the language is made of, read off the tokens alone: an
\* item is a term keyword, for a prefix term an optional extension keyword,
\* and a value; a value is a token that does not begin with a quote, or the
\* tokens from one that begins with a quote to the next quote, joined by
\* spaces, without the quotes. Items are joined by "and".
RECURSIVE QuotedValue(_, _)
QuotedValue(acc, toks) ==
  IF toks = <<>> THEN [ok |-> FALSE, value |-> acc, rest |-> <<>>]
  ELSE LET tok == Head(toks)
           q == strchr(tok)
           part == IF q # 0 THEN SubSeq(tok, 1, q - 1) ELSE tok
           joined == IF part = <<>> THEN acc
                     ELSE IF acc = <<>> THEN part
                     ELSE acc \o <<" ">> \o part
       IN IF q # 0 THEN [ok |-> TRUE, value |-> joined, rest |-> Tail(toks)]
          ELSE QuotedValue(joined, Tail(toks))

ItemValue(toks) ==
  IF toks = <<>> THEN [ok |-> FALSE, value |-> <<>>, rest |-> <<>>]
  ELSE IF Head(Head(toks)) # QUOTE
  THEN [ok |-> TRUE, value |-> Head(toks), rest |-> Tail(toks)]
  ELSE QuotedValue(<<>>, <<Tail(Head(toks))>> \o Tail(toks))

RECURSIVE FilterItems(_)
FilterItems(toks) ==
  IF toks = <<>> \/ TermType(Head(toks)) = "NONE"
  THEN [ok |-> FALSE, items |-> <<>>]
  ELSE LET term == TermType(Head(toks))
           ext == IF term = "ELEM_PREFIX_MORE" /\ Len(toks) > 1
                    /\ PrefixExtType(toks[2]) # "NONE"
                  THEN PrefixExtType(toks[2]) ELSE "NONE"
           v == ItemValue(IF ext = "NONE" THEN Tail(toks) ELSE Tail(Tail(toks)))
           item == [type |-> IF ext = "NONE" THEN term ELSE ext, value |-> v.value]
           more == FilterItems(Tail(v.rest))
       IN IF ~ v.ok THEN [ok |-> FALSE, items |-> <<>>]
          ELSE IF v.rest = <<>> THEN [ok |-> TRUE, items |-> <<item>>]
          ELSE IF Head(v.rest) # <<"and">> THEN [ok |-> FALSE, items |-> <<>>]
          ELSE [ok |-> more.ok, items |-> <<item>> \o more.items]

\* the function returned 1 for the tokens read
Accepted == parser.done /\ parser.ret = 1

\* C39: for every accepted filter string each item of term and value adds
\* exactly one filter, which carries the complete value, whether the value is
\* unquoted, quoted in one token or quoted over several tokens;
\* instantiate_filter is called once per item and only in state ENDVALUE.
C39_OneFilterPerItem ==
  (Accepted /\ FilterItems(parser.tokens).ok)
    => /\ parser.filters = FilterItems(parser.tokens).items
       /\ Len(parser.calls) = Len(FilterItems(parser.tokens).items)
       /\ \A i \in 1..Len(parser.calls) : parser.calls[i].state = "ENDVALUE"

\* a token that opens a quote and does not close it
OpensQuote(tok) == Head(tok) = QUOTE /\ strchr(Tail(tok)) = 0

\* the same for the strings whose values are single tokens and whose terms
\* instantiate_filter knows
OneFilterPerSingleTokenItem ==
  (Accepted /\ FilterItems(parser.tokens).ok
     /\ \A i \in 1..Len(parser.tokens) :
          /\ ~ OpensQuote(parser.tokens[i])
          /\ TermType(parser.tokens[i]) # "ELEM_EXTENDED_COMMUNITY")
    => /\ parser.filters = FilterItems(parser.tokens).items
       /\ Len(parser.calls) = Len(FilterItems(parser.tokens).items)
       /\ \A i \in 1..Len(parser.calls) : parser.calls[i].state = "ENDVALUE"

\* the last filter of an accepted string of the language carries the complete
\* value of the last item, if instantiate_filter knows its term
LastFilterComplete ==
  LET items == FilterItems(parser.tokens).items
  IN (Accepted /\ FilterItems(parser.tokens).ok
        /\ items[Len(items)].type \in InstantiatedTypes)
       => /\ parser.filters # <<>>
          /\ parser.filters[Len(parser.filters)] = items[Len(items)]

\* C40: bgpstream_parse_filter_string returns 1 exactly for the strings that
\* are one or more complete items joined by "and"; a string that ends after a
\* term keyword, within a quote or after "and" returns 0, as does an unknown
\* term or another conjunction.
C40_AcceptsExactlyTheLanguage ==
  parser.done => ((parser.ret = 1) <=> FilterItems(parser.tokens).ok)

\* the strings of the language are those that end in state ENDVALUE
LanguageEndsInEndvalue ==
  parser.done => ((parser.state = "ENDVALUE") <=> FilterItems(parser.tokens).ok)

\* 0 is returned exactly after a FAIL
ReturnsZeroAfterFail ==
  parser.done => ((parser.ret = 0) <=> (parser.state = "FAIL"))

====
